---- MODULE Spec2Model ----
(***************************************************************************)
(* Verification model of the BankNifty trade-outcome evaluators, the live  *)
(* tick/candle loops and the indicator pipeline.                           *)
(*                                                                         *)
(* Conventions                                                             *)
(*  - Sequences are 1-based: bar k of the model is df.iloc[k-1].           *)
(*  - Prices are integers (price units).                                   *)
(*  - pnl_r is kept in hundredths of a risk unit (pnl_r = 100 is +1R), the *)
(*    resolution of round(pnl, 2).                                         *)
(***************************************************************************)
EXTENDS Integers, Sequences, FiniteSets, TLC

\* ------------------------------------------------------------------------
\* Bounds of the model
\* ------------------------------------------------------------------------
MaxLen == 4

MaxCandles == 3

MaxSignal == 2

MaxTicks == 4

StartMinute == 3

MaxMinute == 6

MaxBars == 16

FlatBars == 11

\* signal generators: rows of a series, calls on one instance
MaxRows == 5

MaxCalls == 2

\* ORB: rows of a session after its three opening bars
MaxTail == 3

\* VWAP reversion: rows after the ATR warm-up rows
MaxFree == 3

\* batch columns: bars of the series, session dates
MaxColBars == 6

MaxColDate == 3

\* live ORB: candles of the session
MaxOrbBars == 7

\* ------------------------------------------------------------------------
\* Helpers
\* ------------------------------------------------------------------------
Min(a, b) == IF a <= b THEN a ELSE b

Max(a, b) == IF a >= b THEN a ELSE b

Abs(a) == IF a >= 0 THEN a ELSE 0 - a

\* Python round(num/den, 2), as hundredths: nearest, exact ties to even
Round2_Trunc(num, den) == IF num >= 0 THEN (100 * num) \div den ELSE 0 - ((0 - 100 * num) \div den)

Round2(num, den) ==
    LET n == IF den > 0 THEN 100 * num ELSE 0 - 100 * num
        d == Abs(den)
        q == n \div d
        r == n - q * d
    IN  IF 2 * r < d THEN q
        ELSE IF 2 * r > d THEN q + 1
        ELSE IF q % 2 = 0 THEN q ELSE q + 1

\* ------------------------------------------------------------------------
\* Input space of the evaluators
\* ------------------------------------------------------------------------
\* OHLC shapes of a bar (open is read by no evaluator)
BarShapes ==
    { [low |-> 4, high |-> 4, close |-> 4],
      [low |-> 1, high |-> 4, close |-> 3],
      [low |-> 4, high |-> 7, close |-> 5],
      [low |-> 1, high |-> 7, close |-> 4],
      [low |-> 2, high |-> 4, close |-> 2] }

\* a bar series of n bars: bar k has datetime k; bars after `split` belong
\* to the second session date
MakeDf(shapes, split) ==
    [k \in 1..Len(shapes) |->
        [datetime |-> k,
         date     |-> IF k <= split THEN 1 ELSE 2,
         low      |-> shapes[k].low,
         high     |-> shapes[k].high,
         close    |-> shapes[k].close]]

BarSeries ==
    UNION { { MakeDf(s, split) : s \in [1..n -> BarShapes], split \in 1..n } : n \in 1..MaxLen }

\* trades as the strategies emit them: target = entry +/- (entry - sl) * rr
TradeShapes ==
    { [type |-> "BUY",  entry |-> 4, stoploss |-> 1, target |-> 7, rr |-> 1],
      [type |-> "SELL", entry |-> 4, stoploss |-> 7, target |-> 1, rr |-> 1],
      [type |-> "BUY",  entry |-> 3, stoploss |-> 1, target |-> 7, rr |-> 2],
      [type |-> "SELL", entry |-> 5, stoploss |-> 7, target |-> 1, rr |-> 2],
      [type |-> "BUY",  entry |-> 4, stoploss |-> 3, target |-> 5, rr |-> 1] }

\* time 0 is a timestamp that matches no bar
Trades ==
    { [type |-> t.type, entry |-> t.entry, stoploss |-> t.stoploss,
       target |-> t.target, rr |-> t.rr, time |-> tm] :
         t \in TradeShapes, tm \in 0..MaxSignal }

\* ------------------------------------------------------------------------
\* State
\* ------------------------------------------------------------------------
VARIABLES
    df,           \* the bar series handed to evaluate_trade
    trade,        \* the trade dict
    max_candles,  \* lookahead cap of evaluate_trade
    pc,           \* position in backtest_v2.evaluate_trade
    idx,          \* idx_list[0] (0 while unset / not found)
    i,            \* loop variable of the scan
    examined,     \* indices the loop body has read, in order
    result,       \* result["result"]
    pnl_r,        \* result["pnl_r"] in hundredths
    others        \* outcomes of the other evaluator variants on (df, trade)

evalVars == <<df, trade, max_candles, pc, idx, i, examined, result, pnl_r, others>>

\* live loops (zerodha_stream_v2.candle_watcher, live_runner.candle_engine)
VARIABLES
    loop,            \* which live module runs: "watcher" or "engine"
    now,             \* wall clock, in minutes
    delivered,       \* number of ticks the feed has handed to on_ticks
    ticks_buffer,    \* the list the global ticks_buffer is bound to
    buf_id,          \* identity of that list object
    p_pc,            \* position of the feed thread inside on_ticks
    p_ref,           \* list object on_ticks has loaded
    p_ticks,         \* argument of the on_ticks call in progress
    current_minute,  \* global current_minute (None = -1)
    w_pc,            \* position of the candle loop
    w_now,           \* its local now / minute
    w_candle,        \* its local candle_1m / c1 (<<>> = None)
    w_ids,           \* ids of the ticks that candle was built from
    candles_1min,    \* deque of 1-minute candles
    min_buffer,      \* candle_watcher's local min_buffer
    candles_5min,    \* deque of 5-minute candles
    candle_ticks,    \* per 1-minute candle built: the ids of the ticks read
    candle_mins,     \* per 5-minute candle built: the stamps of the candles aggregated
    tick_minutes     \* per tick id: the minute the tick is stamped with

liveVars == <<loop, now, delivered, ticks_buffer, buf_id, p_pc, p_ref, p_ticks,
              current_minute, w_pc, w_now, w_candle, w_ids, candles_1min, min_buffer,
              candles_5min, candle_ticks, candle_mins, tick_minutes>>

\* indicator pipeline, batch and live, fed the same bars
VARIABLES
    ind_series,   \* every 5-minute bar so far: the DataFrame of the batch run
    ind_deque,    \* the same bars in the live deque candles_5min
    ind_batch,    \* calculate_all_indicators(ind_series) at the last row
    ind_live      \* calc_* over ind_deque after the last append

indVars == <<ind_series, ind_deque, ind_batch, ind_live>>

\* a signal generator instance and the calls made on it
VARIABLES
    gen_kind,     \* the strategy class of the instance
    gen_self,     \* the instance's fields
    gen_df,       \* the bar series every call is given
    gen_calls,    \* number of calls that have returned
    gen_before,   \* the instance's fields when the latest call was entered
    gen_first,    \* list returned by the first call
    gen_trades    \* list returned by the latest call

genVars == <<gen_kind, gen_self, gen_df, gen_calls, gen_before, gen_first, gen_trades>>

\* the batch pipeline run on a growing series
VARIABLES
    col_df,       \* the bars given to calculate_all_indicators
    col_cols,     \* the columns it attaches, row by row
    col_prev      \* the columns it attached before the last bar was added

colVars == <<col_df, col_cols, col_prev>>

\* the live ORB check of zerodha_stream_v2 during one session
VARIABLES
    orb_len,      \* len(candles_5min)
    orb_today,    \* the 5-minute candles of today's session so far
    orb_state,    \* global orb_state
    orb_signal    \* what check_orb_signal returned for the last candle

orbVars == <<orb_len, orb_today, orb_state, orb_signal>>

\* the decision filters of src/ml
VARIABLES
    flt_file,     \* what MODEL_PATH holds: "missing", "unloadable" or "ok"
    flt_bundle,   \* ai_filter_v2 globals bundle/model/scaler/FEATURES
    flt_calls,    \* calls made so far
    flt_version,  \* the filter last called: "v2" (ai_filter_v2) or "v1" (ai_filter)
    flt_trade,    \* its argument
    flt_row,      \* the feature row handed to the scaler and the model
    flt_prob,     \* what model.predict_proba gave, NoProb if it was not called
    flt_out       \* what the call returned, or that it raised

fltVars == <<flt_file, flt_bundle, flt_calls, flt_version, flt_trade, flt_row, flt_prob,
            flt_out>>

\* the live trade handler of live_engine_v2
VARIABLES
    le_today,     \* datetime.now().date()
    le_daily,     \* global daily_trades
    le_alerts,    \* alerts sent so far, per calendar date
    le_fresh,     \* the last call found daily_trades["date"] != today
    le_tested,    \* daily_trades["count"] as the last call's cap test saw it
    le_ret,       \* what the last call returned, or that it raised
    le_send,      \* what send_telegram_alert did in the last call
    le_loop       \* whether the for-loop of on_new_5min_candle is still running

engVars == <<le_today, le_daily, le_alerts, le_fresh, le_tested, le_ret, le_send, le_loop>>

\* the live exit manager of brain/live_exit_manager.py
VARIABLES
    ex_active,    \* global active_trades: key -> trade
    ex_before,    \* active_trades as the last update_live_exits call found it
    ex_last,      \* df.iloc[-1] of that call
    ex_open       \* trades registered and not yet put on to_remove

exitVars == <<ex_active, ex_before, ex_last, ex_open>>

\* first_pullback_strategy of live_runner
VARIABLES
    fp_candles,   \* the newest candles of candles_5m, at most 4 kept
    fp_flags,     \* TREND_CONFIRMED, PULLBACK_SEEN, TRADE_TAKEN, VWAP_BREAK_COUNT
    fp_ret,       \* what the last call returned: "trade" or "None"
    fp_below      \* closes below VWAP in a row since a trade was taken, up to 2

fpVars == <<fp_candles, fp_flags, fp_ret, fp_below>>

\* live_runner.candle_engine run on its own thread's view: ticks arrive
\* between two passes of the loop
VARIABLES
    rn_sent,      \* ticks handed over so far
    rn_buffer,    \* ticks_buffer
    rn_minute,    \* current_minute
    rn_1m,        \* candles_1m
    rn_5m         \* candles_5m

runVars == <<rn_sent, rn_buffer, rn_minute, rn_1m, rn_5m>>

\* backtest_v2 run loop
VARIABLES
    bt_pc,        \* "collect" before all_trades.sort, "loop" in the for-loop, "done" after it
    bt_all,       \* all_trades
    bt_pos,       \* index in all_trades of the trade the for-loop takes next
    bt_daily,     \* daily_trades: date -> count
    bt_results    \* results, as indices into the sorted all_trades

btVars == <<bt_pc, bt_all, bt_pos, bt_daily, bt_results>>

\* the live candle builders applied to tick and candle lists
VARIABLES
    cb_ticks,     \* the tick list handed to the 1-minute builders next
    cb_candles,   \* the 1-minute candles built and not yet aggregated
    cb_built      \* the last call: its input length and what each builder returned

cbVars == <<cb_ticks, cb_candles, cb_built>>

vars == <<evalVars, liveVars, indVars, genVars, colVars, orbVars, fltVars, engVars, exitVars, fpVars, runVars, btVars, cbVars>>

\* what each part of the system leaves alone
nonEvalVars == <<liveVars, indVars, genVars, colVars, orbVars, fltVars, engVars, exitVars, fpVars, runVars, btVars, cbVars>>

nonLiveVars == <<evalVars, indVars, genVars, colVars, orbVars, fltVars, engVars, exitVars, fpVars, runVars, btVars, cbVars>>

nonIndVars == <<evalVars, liveVars, genVars, colVars, orbVars, fltVars, engVars, exitVars, fpVars, runVars, btVars, cbVars>>

nonGenVars == <<evalVars, liveVars, indVars, colVars, orbVars, fltVars, engVars, exitVars, fpVars, runVars, btVars, cbVars>>

nonColVars == <<evalVars, liveVars, indVars, genVars, orbVars, fltVars, engVars, exitVars, fpVars, runVars, btVars, cbVars>>

nonOrbVars == <<evalVars, liveVars, indVars, genVars, colVars, fltVars, engVars, exitVars, fpVars, runVars, btVars, cbVars>>

nonFltVars == <<evalVars, liveVars, indVars, genVars, colVars, orbVars, engVars, exitVars, fpVars, runVars, btVars, cbVars>>

nonEngVars == <<evalVars, liveVars, indVars, genVars, colVars, orbVars, fltVars, exitVars, fpVars, runVars, btVars, cbVars>>

nonExitVars == <<evalVars, liveVars, indVars, genVars, colVars, orbVars, fltVars, engVars, fpVars, runVars, btVars, cbVars>>

nonFpVars == <<evalVars, liveVars, indVars, genVars, colVars, orbVars, fltVars, engVars, exitVars, runVars, btVars, cbVars>>

nonRunVars == <<evalVars, liveVars, indVars, genVars, colVars, orbVars, fltVars, engVars, exitVars, fpVars, btVars, cbVars>>

nonBtVars == <<evalVars, liveVars, indVars, genVars, colVars, orbVars, fltVars, engVars, exitVars, fpVars, runVars, cbVars>>

nonCbVars == <<evalVars, liveVars, indVars, genVars, colVars, orbVars, fltVars, engVars, exitVars, fpVars, runVars, btVars>>

\* ------------------------------------------------------------------------
\* backtest_v2.evaluate_trade, statement by statement
\* ------------------------------------------------------------------------
\* df.index[df["datetime"] == entry_time].tolist()
IdxList(d, t) == { k \in 1..Len(d) : d[k].datetime = t.time }

FirstIdx(d, t) == CHOOSE k \in IdxList(d, t) : \A m \in IdxList(d, t) : k <= m

\* end_idx = min(idx + max_candles, len(df)); exclusive, shifted to 1-based
EndIdx(ix, n, d) == Min(ix + n, Len(d) + 1)

\* candle["low"] <= sl  /  candle["high"] >= sl
StopHit_Never(c, t) == FALSE

StopHit(c, t) == IF t.type = "BUY" THEN c.low <= t.stoploss ELSE c.high >= t.stoploss

\* candle["high"] >= target  /  candle["low"] <= target
TargetHit_Never(c, t) == FALSE

TargetHit(c, t) == IF t.type = "BUY" THEN c.high >= t.target ELSE c.low <= t.target

\* the stop test precedes the target test
LevelTest_TargetFirst(c, t) ==
    IF TargetHit(c, t) THEN "WIN" ELSE IF StopHit(c, t) THEN "LOSS" ELSE "NONE"

LevelTest(c, t) ==
    IF StopHit(c, t) THEN "LOSS" ELSE IF TargetHit(c, t) THEN "WIN" ELSE "NONE"

\* lines 70-88: what one scanned bar decides; the date test precedes the
\* stop and target tests
BarTest_LevelsFirst(c, sig, t) ==
    IF LevelTest(c, t) # "NONE" THEN LevelTest(c, t)
    ELSE IF c.date # sig.date THEN "EOD" ELSE "NONE"

BarTest(c, sig, t) ==
    IF c.date # sig.date THEN "EOD" ELSE LevelTest(c, t)

\* pnl_r of the outcomes with a fixed value
WinPnl_One(t) == 100

WinPnl(t) == 100 * t.rr

LossPnl(t) == 0 - 100

\* End of day exit: pnl of closing at prev["close"], round(pnl, 2)
EodPnl_Trunc(prev, t) ==
    IF t.type = "BUY"
    THEN IF t.entry # t.stoploss THEN Round2_Trunc(prev.close - t.entry, t.entry - t.stoploss) ELSE 0
    ELSE IF t.stoploss # t.entry THEN Round2_Trunc(t.entry - prev.close, t.stoploss - t.entry) ELSE 0

EodPnl(prev, t) ==
    IF t.type = "BUY"
    THEN IF t.entry # t.stoploss THEN Round2(prev.close - t.entry, t.entry - t.stoploss) ELSE 0
    ELSE IF t.stoploss # t.entry THEN Round2(t.entry - prev.close, t.stoploss - t.entry) ELSE 0

\* line 90: the outcome of an exhausted scan
TimeoutResult_Loss == "LOSS"

TimeoutResult == "TIMEOUT"

\* prev = df.iloc[i - 1]
PrevBar(d, k) == d[k - 1]

NoOthers == [engine |-> "-", tuning |-> "-", label_v2 |-> -1, label_v1 |-> -1,
             unbounded |-> [result |-> "-", pnl_r |-> 0],
             again |-> [result |-> "-", pnl_r |-> 0]]

\* for i in range(idx + 1, end_idx): the loop variable is bound afresh by
\* each call, whatever an earlier call left in it
LoopStart_Resume(ix, left) == Max(ix + 1, left + 1)

LoopStart(ix, left) == ix + 1

InitEval ==
    /\ df \in BarSeries
    /\ trade \in Trades
    /\ max_candles \in 1..MaxCandles
    /\ pc = "lookup"
    /\ idx = 0
    /\ i = 0
    /\ examined = <<>>
    /\ result = "-"
    /\ pnl_r = 0
    /\ others = NoOthers

\* lines 59-61: timestamp not found
LookupMiss ==
    /\ pc = "lookup"
    /\ IdxList(df, trade) = {}
    /\ result' = "SKIP"
    /\ pnl_r' = 0
    /\ pc' = "done"
    /\ UNCHANGED <<df, trade, max_candles, idx, i, examined, others>>
    /\ UNCHANGED nonEvalVars

\* lines 63-65: timestamp found, loop initialised
LookupHit ==
    /\ pc = "lookup"
    /\ IdxList(df, trade) # {}
    /\ idx' = FirstIdx(df, trade)
    /\ i' = LoopStart(FirstIdx(df, trade), i)
    /\ pc' = "scan"
    /\ UNCHANGED <<df, trade, max_candles, examined, result, pnl_r, others>>
    /\ UNCHANGED nonEvalVars

\* lines 70-77: the bar read belongs to another date
ScanEod ==
    /\ pc = "scan"
    /\ i < EndIdx(idx, max_candles, df)
    /\ BarTest(df[i], df[idx], trade) = "EOD"
    /\ examined' = Append(examined, i)
    /\ result' = "EOD"
    /\ pnl_r' = EodPnl(PrevBar(df, i), trade)
    /\ pc' = "done"
    /\ UNCHANGED <<df, trade, max_candles, idx, i, others>>
    /\ UNCHANGED nonEvalVars

\* lines 79-88: stop or target touched
ScanLevel ==
    /\ pc = "scan"
    /\ i < EndIdx(idx, max_candles, df)
    /\ BarTest(df[i], df[idx], trade) \in {"LOSS", "WIN"}
    /\ examined' = Append(examined, i)
    /\ result' = BarTest(df[i], df[idx], trade)
    /\ pnl_r' = IF BarTest(df[i], df[idx], trade) = "LOSS" THEN LossPnl(trade) ELSE WinPnl(trade)
    /\ pc' = "done"
    /\ UNCHANGED <<df, trade, max_candles, idx, i, others>>
    /\ UNCHANGED nonEvalVars

\* lines 67-88: neither level touched, next iteration
ScanNext ==
    /\ pc = "scan"
    /\ i < EndIdx(idx, max_candles, df)
    /\ BarTest(df[i], df[idx], trade) = "NONE"
    /\ examined' = Append(examined, i)
    /\ i' = i + 1
    /\ UNCHANGED <<df, trade, max_candles, pc, idx, result, pnl_r, others>>
    /\ UNCHANGED nonEvalVars

\* line 90: range exhausted
ScanTimeout ==
    /\ pc = "scan"
    /\ i >= EndIdx(idx, max_candles, df)
    /\ result' = TimeoutResult
    /\ pnl_r' = 0
    /\ pc' = "done"
    /\ UNCHANGED <<df, trade, max_candles, idx, i, examined, others>>
    /\ UNCHANGED nonEvalVars

\* ------------------------------------------------------------------------
\* The same evaluator as a function of its arguments
\* ------------------------------------------------------------------------
RECURSIVE V2Scan(_, _, _, _, _)
V2Scan(d, t, ix, k, end) ==
    IF k >= end THEN [result |-> TimeoutResult, pnl_r |-> 0]
    ELSE IF BarTest(d[k], d[ix], t) = "EOD"
         THEN [result |-> "EOD", pnl_r |-> EodPnl(PrevBar(d, k), t)]
    ELSE IF BarTest(d[k], d[ix], t) = "LOSS" THEN [result |-> "LOSS", pnl_r |-> LossPnl(t)]
    ELSE IF BarTest(d[k], d[ix], t) = "WIN" THEN [result |-> "WIN", pnl_r |-> WinPnl(t)]
    ELSE V2Scan(d, t, ix, k + 1, end)

EvaluateTradeV2(d, t, n) ==
    IF IdxList(d, t) = {} THEN [result |-> "SKIP", pnl_r |-> 0]
    ELSE V2Scan(d, t, FirstIdx(d, t), FirstIdx(d, t) + 1, EndIdx(FirstIdx(d, t), n, d))

\* ------------------------------------------------------------------------
\* The other evaluator variants
\* ------------------------------------------------------------------------
\* target = entry + (entry - sl) * rr  /  entry - (sl - entry) * rr
DerivedTarget(t) ==
    IF t.type = "BUY" THEN t.entry + (t.entry - t.stoploss) * t.rr
    ELSE t.entry - (t.stoploss - t.entry) * t.rr

\* for i in range(idx + 1, len(df)): stop test, then target test
RECURSIVE ScanToEnd(_, _, _, _)
ScanToEnd(d, t, k, none) ==
    IF k > Len(d) THEN none
    ELSE IF LevelTest(d[k], t) # "NONE" THEN LevelTest(d[k], t)
    ELSE ScanToEnd(d, t, k + 1, none)

\* BacktestEngine.evaluate_trade, called from run() with df.index[...][0]
BacktestEngineEvaluate(d, t) ==
    IF IdxList(d, t) = {} THEN "IndexError"
    ELSE ScanToEnd(d, t, FirstIdx(d, t) + 1, "BE")

\* ai_threshold_tuning.evaluate_trade (ai_strategy_threshold_grid_backtest
\* carries the same body)
TuningNotFound == "LOSS"

TuningEvaluate(d, t) ==
    IF IdxList(d, t) = {} THEN TuningNotFound
    ELSE ScanToEnd(d, [t EXCEPT !.target = DerivedTarget(t)], FirstIdx(d, t) + 1, "LOSS")

\* build_training_data.evaluate_trade: label 1 = WIN, 0 = LOSS
LabelV1(d, t) ==
    IF IdxList(d, t) = {} THEN 0
    ELSE IF ScanToEnd(d, [t EXCEPT !.target = DerivedTarget(t)], FirstIdx(d, t) + 1, "LOSS") = "WIN"
         THEN 1 ELSE 0

\* build_training_data_v2.evaluate_trade: label 1 = WIN, 0 = LOSS
RECURSIVE LabelV2Scan(_, _, _, _, _)
LabelV2Scan(d, t, ix, k, end) ==
    IF k >= end THEN 0
    ELSE IF BarTest(d[k], d[ix], t) = "EOD"
         THEN IF t.type = "BUY"
              THEN (IF PrevBar(d, k).close > t.entry THEN 1 ELSE 0)
              ELSE (IF PrevBar(d, k).close < t.entry THEN 1 ELSE 0)
    ELSE IF BarTest(d[k], d[ix], t) = "LOSS" THEN 0
    ELSE IF BarTest(d[k], d[ix], t) = "WIN" THEN 1
    ELSE LabelV2Scan(d, t, ix, k + 1, end)

LabelV2_ToEnd(d, t, n) ==
    IF IdxList(d, t) = {} THEN 0
    ELSE LabelV2Scan(d, t, FirstIdx(d, t), FirstIdx(d, t) + 1, Len(d) + 1)

LabelV2(d, t, n) ==
    IF IdxList(d, t) = {} THEN 0
    ELSE LabelV2Scan(d, t, FirstIdx(d, t), FirstIdx(d, t) + 1, EndIdx(FirstIdx(d, t), n, d))

\* the variants are run on the series and trade backtest_v2 has just scored;
\* `unbounded` is backtest_v2.evaluate_trade with a cap no series reaches
EvaluateVariants ==
    /\ pc = "done"
    /\ others' = [engine    |-> BacktestEngineEvaluate(df, trade),
                  tuning    |-> TuningEvaluate(df, trade),
                  label_v2  |-> LabelV2(df, trade, max_candles),
                  label_v1  |-> LabelV1(df, trade),
                  unbounded |-> EvaluateTradeV2(df, trade, Len(df) + 1),
                  again     |-> NoOthers.again]
    /\ pc' = "end"
    /\ UNCHANGED <<df, trade, max_candles, idx, i, examined, result, pnl_r>>
    /\ UNCHANGED nonEvalVars

\* backtest_v2.evaluate_trade called a second time with the series and the
\* trade as the first call left them
EvaluateAgain ==
    /\ pc = "end"
    /\ others' = [others EXCEPT !.again =
          IF IdxList(df, trade) = {} THEN [result |-> "SKIP", pnl_r |-> 0]
          ELSE V2Scan(df, trade, FirstIdx(df, trade),
                      LoopStart(FirstIdx(df, trade), i),
                      EndIdx(FirstIdx(df, trade), max_candles, df))]
    /\ pc' = "again"
    /\ UNCHANGED <<df, trade, max_candles, idx, i, examined, result, pnl_r>>
    /\ UNCHANGED nonEvalVars

NextEval ==
    \/ LookupMiss
    \/ LookupHit
    \/ ScanEod
    \/ ScanLevel
    \/ ScanNext
    \/ ScanTimeout
    \/ EvaluateVariants
    \/ EvaluateAgain

\* ------------------------------------------------------------------------
\* Live loops: feed thread (on_ticks) and candle thread
\* ------------------------------------------------------------------------
None == -1

TickPrices == {1, 2}

Candles1mMaxlen == 100

Candles5mMaxlen == 100

RunnerMaxlen == 200

\* deque(maxlen=n).append
DequeAppend(q, x, n) == IF Len(q) >= n THEN Append(Tail(q), x) ELSE Append(q, x)

RECURSIVE SeqMax(_)
SeqMax(q) == IF Len(q) = 1 THEN q[1] ELSE Max(q[1], SeqMax(Tail(q)))

RECURSIVE SeqMin(_)
SeqMin(q) == IF Len(q) = 1 THEN q[1] ELSE Min(q[1], SeqMin(Tail(q)))

\* zerodha_stream_v2.build_1min_candle; timestamps are whole minutes
build_1min_candle_LastHigh(ticks) ==
    IF ticks = <<>> THEN <<>>
    ELSE LET prices == [k \in 1..Len(ticks) |-> ticks[k].last_price]
         IN  << [time  |-> ticks[1].exchange_timestamp,
                 open  |-> prices[1],
                 high  |-> prices[Len(prices)],
                 low   |-> SeqMin(prices),
                 close |-> prices[Len(prices)]] >>

build_1min_candle(ticks) ==
    IF ticks = <<>> THEN <<>>
    ELSE LET prices == [k \in 1..Len(ticks) |-> ticks[k].last_price]
         IN  << [time  |-> ticks[1].exchange_timestamp,
                 open  |-> prices[1],
                 high  |-> SeqMax(prices),
                 low   |-> SeqMin(prices),
                 close |-> prices[Len(prices)]] >>

\* live_runner.build_1m_candle (every modelled tick carries a timestamp)
build_1m_candle(ticks) ==
    IF ticks = <<>> THEN <<>>
    ELSE LET prices == [k \in 1..Len(ticks) |-> ticks[k].last_price]
         IN  << [time  |-> ticks[1].exchange_timestamp,
                 open  |-> prices[1],
                 high  |-> SeqMax(prices),
                 low   |-> SeqMin(prices),
                 close |-> prices[Len(prices)]] >>

\* zerodha_stream_v2.aggregate_5min
aggregate_5min(candles_1m) ==
    [time  |-> candles_1m[1].time,
     open  |-> candles_1m[1].open,
     high  |-> SeqMax([k \in 1..Len(candles_1m) |-> candles_1m[k].high]),
     low   |-> SeqMin([k \in 1..Len(candles_1m) |-> candles_1m[k].low]),
     close |-> candles_1m[Len(candles_1m)].close]

\* live_runner.build_5m
build_5m(last5) ==
    [time  |-> last5[Len(last5)].time,
     open  |-> last5[1].open,
     high  |-> SeqMax([k \in 1..Len(last5) |-> last5[k].high]),
     low   |-> SeqMin([k \in 1..Len(last5) |-> last5[k].low]),
     close |-> last5[Len(last5)].close]

\* list(candles_1m)[-5:]
Last5(q) == IF Len(q) <= 5 THEN q ELSE SubSeq(q, Len(q) - 4, Len(q))

TickIds(ticks) == [k \in 1..Len(ticks) |-> ticks[k].id]

Stamps(candles) == [k \in 1..Len(candles) |-> candles[k].time]

InitLive ==
    /\ loop \in {"watcher", "engine"}
    /\ now = StartMinute
    /\ delivered = 0
    /\ ticks_buffer = <<>>
    /\ buf_id = 0
    /\ p_pc = "idle"
    /\ p_ref = 0
    /\ p_ticks = <<>>
    /\ current_minute = None
    /\ w_pc = "top"
    /\ w_now = None
    /\ w_candle = <<>>
    /\ w_ids = <<>>
    /\ candles_1min = <<>>
    /\ min_buffer = <<>>
    /\ candles_5min = <<>>
    /\ candle_ticks = <<>>
    /\ candle_mins = <<>>
    /\ tick_minutes = <<>>

\* the wall clock passes a minute boundary
ClockTick ==
    /\ now < MaxMinute
    /\ now' = now + 1
    /\ UNCHANGED <<loop, delivered, ticks_buffer, buf_id, p_pc, p_ref, p_ticks,
                   current_minute, w_pc, w_now, w_candle, w_ids, candles_1min, min_buffer,
                   candles_5min, candle_ticks,
                   candle_mins, tick_minutes>>
    /\ UNCHANGED nonLiveVars

\* zerodha_stream_v2.on_ticks is entered: the global list is loaded
OnTicksLoad ==
    /\ loop = "watcher"
    /\ p_pc = "idle"
    /\ delivered < MaxTicks
    /\ \E p \in TickPrices :
          p_ticks' = << [id |-> delivered + 1, exchange_timestamp |-> now, last_price |-> p] >>
    /\ delivered' = delivered + 1
    /\ tick_minutes' = Append(tick_minutes, now)
    /\ p_ref' = buf_id
    /\ p_pc' = "extend"
    /\ UNCHANGED <<loop, now, ticks_buffer, buf_id, current_minute, w_pc, w_now,
                   w_candle, w_ids, candles_1min, min_buffer, candles_5min, candle_ticks,
                   candle_mins>>
    /\ UNCHANGED nonLiveVars

\* zerodha_stream_v2.on_ticks: .extend(ticks) on the list that was loaded;
\* a list the global no longer names is garbage
OnTicksExtend ==
    /\ loop = "watcher"
    /\ p_pc = "extend"
    /\ ticks_buffer' = IF p_ref = buf_id THEN ticks_buffer \o p_ticks ELSE ticks_buffer
    /\ p_ticks' = <<>>
    /\ p_pc' = "idle"
    /\ UNCHANGED <<loop, now, delivered, buf_id, p_ref, current_minute, w_pc, w_now,
                   w_candle, w_ids, candles_1min, min_buffer, candles_5min, candle_ticks,
                   candle_mins, tick_minutes>>
    /\ UNCHANGED nonLiveVars

\* live_runner.on_ticks: one ticks_buffer.append(t)
OnTicksAppend ==
    /\ loop = "engine"
    /\ delivered < MaxTicks
    /\ \E p \in TickPrices :
          ticks_buffer' = Append(ticks_buffer,
              [id |-> delivered + 1, exchange_timestamp |-> now, last_price |-> p])
    /\ delivered' = delivered + 1
    /\ tick_minutes' = Append(tick_minutes, now)
    /\ UNCHANGED <<loop, now, buf_id, p_pc, p_ref, p_ticks, current_minute, w_pc, w_now,
                   w_candle, w_ids, candles_1min, min_buffer, candles_5min, candle_ticks,
                   candle_mins>>
    /\ UNCHANGED nonLiveVars

\* candle_watcher lines 563-570: a minute has passed, the buffer is read
WatcherBuild ==
    /\ loop = "watcher"
    /\ w_pc = "top"
    /\ LET cm == IF current_minute = None THEN now ELSE current_minute
       IN  /\ current_minute' = cm
           /\ IF now > cm
              THEN /\ w_now' = now
                   /\ w_candle' = build_1min_candle(ticks_buffer)
                   /\ w_ids' = TickIds(ticks_buffer)
                   /\ w_pc' = "built"
              ELSE UNCHANGED <<w_now, w_candle, w_ids, w_pc>>
    /\ UNCHANGED <<loop, now, delivered, ticks_buffer, buf_id, p_pc, p_ref, p_ticks,
                   candles_1min, min_buffer, candles_5min, candle_ticks,
                   candle_mins, tick_minutes>>
    /\ UNCHANGED nonLiveVars

\* candle_watcher lines 572-586: the candle is stored and, on a 5-minute
\* boundary, min_buffer is aggregated (on_new_5min_candle appends it)
WatcherStore ==
    /\ loop = "watcher"
    /\ w_pc = "built"
    /\ IF w_candle # <<>>
       THEN /\ candles_1min' = DequeAppend(candles_1min, w_candle[1], Candles1mMaxlen)
            /\ candle_ticks' = Append(candle_ticks, w_ids)
            /\ IF w_now % 5 = 0 /\ Len(min_buffer) + 1 >= 1
               THEN /\ candles_5min' = DequeAppend(candles_5min,
                            aggregate_5min(Append(min_buffer, w_candle[1])), Candles5mMaxlen)
                    /\ candle_mins' = Append(candle_mins,
                            Stamps(Append(min_buffer, w_candle[1])))
                    /\ min_buffer' = <<>>
               ELSE /\ min_buffer' = Append(min_buffer, w_candle[1])
                    /\ UNCHANGED <<candles_5min, candle_mins>>
       ELSE UNCHANGED <<candles_1min, candle_ticks, min_buffer, candles_5min, candle_mins>>
    /\ w_pc' = "reset"
    /\ UNCHANGED <<loop, now, delivered, ticks_buffer, buf_id, p_pc, p_ref, p_ticks,
                   current_minute, w_now, w_candle, w_ids>>
    /\ UNCHANGED tick_minutes
    /\ UNCHANGED nonLiveVars

\* candle_watcher lines 588-589: ticks_buffer = [] binds a new list
WatcherReset ==
    /\ loop = "watcher"
    /\ w_pc = "reset"
    /\ ticks_buffer' = <<>>
    /\ buf_id' = buf_id + 1
    /\ current_minute' = w_now
    /\ w_pc' = "top"
    /\ UNCHANGED <<loop, now, delivered, p_pc, p_ref, p_ticks, w_now, w_candle, w_ids,
                   candles_1min, min_buffer, candles_5min, candle_ticks,
                   candle_mins, tick_minutes>>
    /\ UNCHANGED nonLiveVars

\* candle_engine lines 250-267: the last tick is of a later minute, the
\* buffer is read
EngineBuild ==
    /\ loop = "engine"
    /\ w_pc = "top"
    /\ ticks_buffer # <<>>
    /\ LET minute == ticks_buffer[Len(ticks_buffer)].exchange_timestamp
           cm == IF current_minute = None THEN minute ELSE current_minute
       IN  /\ current_minute' = cm
           /\ IF minute > cm
              THEN /\ w_now' = minute
                   /\ w_candle' = build_1m_candle(ticks_buffer)
                   /\ w_ids' = TickIds(ticks_buffer)
                   /\ w_pc' = "built"
              ELSE UNCHANGED <<w_now, w_candle, w_ids, w_pc>>
    /\ UNCHANGED <<loop, now, delivered, ticks_buffer, buf_id, p_pc, p_ref, p_ticks,
                   candles_1min, min_buffer, candles_5min, candle_ticks,
                   candle_mins, tick_minutes>>
    /\ UNCHANGED nonLiveVars

\* candle_engine lines 269-279: the candle is stored and, when the last of
\* five stored candles is stamped on a 5-minute boundary, build_5m is stored
EngineStore ==
    /\ loop = "engine"
    /\ w_pc = "built"
    /\ LET c1m == IF w_candle # <<>>
                  THEN DequeAppend(candles_1min, w_candle[1], RunnerMaxlen)
                  ELSE candles_1min
       IN  /\ candles_1min' = c1m
           /\ candles_5min' =
                 IF Len(c1m) >= 5 /\ Last5(c1m)[5].time % 5 = 0
                 THEN DequeAppend(candles_5min, build_5m(Last5(c1m)), RunnerMaxlen)
                 ELSE candles_5min
           /\ candle_mins' =
                 IF Len(c1m) >= 5 /\ Last5(c1m)[5].time % 5 = 0
                 THEN Append(candle_mins, Stamps(Last5(c1m)))
                 ELSE candle_mins
    /\ candle_ticks' = IF w_candle # <<>> THEN Append(candle_ticks, w_ids)
                       ELSE candle_ticks
    /\ w_pc' = "reset"
    /\ UNCHANGED <<loop, now, delivered, ticks_buffer, buf_id, p_pc, p_ref, p_ticks,
                   current_minute, w_now, w_candle, w_ids, min_buffer>>
    /\ UNCHANGED tick_minutes
    /\ UNCHANGED nonLiveVars

\* candle_engine lines 298-299: ticks_buffer.clear()
EngineReset ==
    /\ loop = "engine"
    /\ w_pc = "reset"
    /\ ticks_buffer' = <<>>
    /\ current_minute' = w_now
    /\ w_pc' = "top"
    /\ UNCHANGED <<loop, now, delivered, buf_id, p_pc, p_ref, p_ticks, w_now, w_candle, w_ids,
                   candles_1min, min_buffer, candles_5min, candle_ticks,
                   candle_mins, tick_minutes>>
    /\ UNCHANGED nonLiveVars

NextLive ==
    \/ ClockTick
    \/ OnTicksLoad
    \/ OnTicksExtend
    \/ OnTicksAppend
    \/ WatcherBuild
    \/ WatcherStore
    \/ WatcherReset
    \/ EngineBuild
    \/ EngineStore
    \/ EngineReset

\* ------------------------------------------------------------------------
\* Indicators: exact rational arithmetic
\* ------------------------------------------------------------------------
RECURSIVE GCD(_, _)
GCD(a, b) == IF b = 0 THEN a ELSE GCD(b, a % b)

\* NaN (pandas) / None (live)
NaN == [ok |-> FALSE, num |-> 0, den |-> 1]

\* the rational n/d, d > 0, in lowest terms
Rat(n, d) ==
    LET g == GCD(Abs(n), d)
    IN  [ok |-> TRUE, num |-> n \div g, den |-> d \div g]

RAdd(a, b) ==
    LET g == GCD(a.den, b.den)
    IN  Rat(a.num * (b.den \div g) + b.num * (a.den \div g), (a.den \div g) * b.den)

RSub(a, b) == RAdd(a, Rat(0 - b.num, b.den))

\* a * p / q
RScale(a, p, q) ==
    LET g == GCD(Abs(a.num), q)
        h == GCD(Abs(p), a.den)
    IN  Rat((a.num \div g) * (p \div h), (a.den \div h) * (q \div g))

RECURSIVE SeqSum(_)
SeqSum(q) == IF q = <<>> THEN 0 ELSE q[1] + SeqSum(Tail(q))

Closes(c) == [k \in 1..Len(c) |-> c[k].close]

\* q[-n:]
LastN(q, n) == IF Len(q) <= n THEN q ELSE SubSeq(q, Len(q) - n + 1, Len(q))

AtrPeriod == 14

RsiPeriod == 14

\* ------------------------------------------------------------------------
\* strategy/indicators.py: calculate_all_indicators, value at row n
\* ------------------------------------------------------------------------
\* df["tr"]: max over the columns skips the NaN of close.shift() in row 1
BatchTr(s, k) ==
    IF k = 1 THEN s[1].high - s[1].low
    ELSE Max(s[k].high - s[k].low,
             Max(Abs(s[k].high - s[k - 1].close), Abs(s[k].low - s[k - 1].close)))

\* df["tr"].rolling(14).mean()
BatchAtr(s, n) ==
    IF n < AtrPeriod THEN NaN
    ELSE Rat(SeqSum([k \in 1..AtrPeriod |-> BatchTr(s, n - AtrPeriod + k)]), AtrPeriod)

\* df["close"].ewm(span=span, adjust=False).mean()
RECURSIVE BatchEma(_, _, _)
BatchEma(s, n, span) ==
    IF n = 1 THEN Rat(s[1].close, 1)
    ELSE LET y == BatchEma(s, n - 1, span)
         IN  IF y.ok THEN RAdd(RScale(y, span - 1, span + 1), Rat(2 * s[n].close, span + 1))
             ELSE NaN

\* gain / loss: delta.where(delta > 0, 0.0), (-delta).where(delta < 0, 0.0);
\* the NaN delta of row 1 becomes 0.0
BatchGain(s, k) == IF k > 1 /\ s[k].close - s[k - 1].close > 0 THEN s[k].close - s[k - 1].close ELSE 0

BatchLoss(s, k) == IF k > 1 /\ s[k].close - s[k - 1].close < 0 THEN s[k - 1].close - s[k].close ELSE 0

\* .ewm(alpha=1/14, adjust=False).mean() of gain (up = TRUE) or loss
RECURSIVE BatchWilder(_, _, _)
BatchWilder(s, n, up) ==
    LET x == IF up THEN BatchGain(s, n) ELSE BatchLoss(s, n)
        y == BatchWilder(s, n - 1, up)
    IN  IF n = 1 THEN Rat(x, 1)
        ELSE IF y.ok THEN RAdd(RScale(y, RsiPeriod - 1, RsiPeriod), Rat(x, RsiPeriod))
        ELSE NaN

\* rsi_14 = 100 - 100 / (1 + avg_gain / (avg_loss + 1e-10)), kept as the
\* pair (avg_gain, avg_loss) it is computed from; min_periods = 14
BatchRsi(s, n) ==
    IF n < RsiPeriod THEN [ok |-> FALSE, ag |-> NaN, al |-> NaN]
    ELSE [ok |-> TRUE, ag |-> BatchWilder(s, n, TRUE), al |-> BatchWilder(s, n, FALSE)]

\* the expanding mean taken over the whole frame
BatchVwap_NoReset(s, n) ==
    Rat(SeqSum([k \in 1..n |-> s[k].high + s[k].low + s[k].close]), 3 * n)

\* df.groupby("date")["tp"].expanding().mean()
BatchVwap(s, n) ==
    LET rows == { k \in 1..n : s[k].date = s[n].date }
    IN  Rat(SeqSum([k \in 1..n |-> IF k \in rows THEN s[k].high + s[k].low + s[k].close ELSE 0]),
            3 * Cardinality(rows))

calculate_all_indicators(s) ==
    [atr    |-> BatchAtr(s, Len(s)),
     ema_9  |-> BatchEma(s, Len(s), 9),
     ema_21 |-> BatchEma(s, Len(s), 21),
     rsi_14 |-> BatchRsi(s, Len(s)),
     vwap   |-> BatchVwap(s, Len(s))]

\* ------------------------------------------------------------------------
\* live/zerodha_stream_v2.py: calc_* over the candle deque
\* ------------------------------------------------------------------------
\* ema = prices[0]; for price in prices[1:]: ema = (price - ema) * multiplier + ema
RECURSIVE EmaLoop(_, _, _)
EmaLoop(prices, n, period) ==
    IF n = 1 THEN Rat(prices[1], 1)
    ELSE LET ema == EmaLoop(prices, n - 1, period)
         IN  IF ema.ok THEN RAdd(RScale(RSub(Rat(prices[n], 1), ema), 2, period + 1), ema)
             ELSE NaN

calc_ema(candles, period) ==
    IF Len(candles) < period THEN NaN
    ELSE EmaLoop(Closes(candles), Len(candles), period)

calc_rsi(candles) ==
    IF Len(candles) < RsiPeriod + 1 THEN [ok |-> FALSE, ag |-> NaN, al |-> NaN]
    ELSE LET prices == Closes(candles)
             gains  == [k \in 1..(Len(prices) - 1) |->
                           IF prices[k + 1] - prices[k] > 0 THEN prices[k + 1] - prices[k] ELSE 0]
             losses == [k \in 1..(Len(prices) - 1) |->
                           IF prices[k + 1] - prices[k] > 0 THEN 0 ELSE Abs(prices[k + 1] - prices[k])]
         IN  [ok |-> TRUE,
              ag |-> Rat(SeqSum(LastN(gains, RsiPeriod)), RsiPeriod),
              al |-> Rat(SeqSum(LastN(losses, RsiPeriod)), RsiPeriod)]

\* today = datetime.now().date(): the date of the candle just closed
calc_vwap(candles) ==
    IF candles = <<>> THEN NaN
    ELSE LET today == candles[Len(candles)].date
             rows  == { k \in 1..Len(candles) : candles[k].date = today }
         IN  Rat(SeqSum([k \in 1..Len(candles) |->
                     IF k \in rows THEN candles[k].high + candles[k].low + candles[k].close ELSE 0]),
                 3 * Cardinality(rows))

calc_atr(candles) ==
    IF Len(candles) < AtrPeriod + 1 THEN NaN
    ELSE Rat(SeqSum([k \in 1..AtrPeriod |->
                 LET curr == candles[Len(candles) - AtrPeriod + k]
                     prev == candles[Len(candles) - AtrPeriod + k - 1]
                 IN  Max(curr.high - curr.low,
                         Max(Abs(curr.high - prev.close), Abs(curr.low - prev.close)))]),
             AtrPeriod)

\* live/live_runner.py: calculate_vwap over the whole deque
calculate_vwap(candles) ==
    Rat(SeqSum([k \in 1..Len(candles) |-> candles[k].high + candles[k].low + candles[k].close]),
        3 * Len(candles))

LiveIndicators(candles) ==
    [atr    |-> calc_atr(candles),
     ema_9  |-> calc_ema(candles, 9),
     ema_21 |-> calc_ema(candles, 21),
     rsi_14 |-> calc_rsi(candles),
     vwap   |-> calc_vwap(candles),
     runner_vwap |-> calculate_vwap(candles)]

\* ------------------------------------------------------------------------
\* The bar stream
\* ------------------------------------------------------------------------
FlatBar == [high |-> 4, low |-> 4, close |-> 4]

IndBarShapes ==
    { FlatBar,
      [high |-> 6, low |-> 4, close |-> 6],
      [high |-> 4, low |-> 2, close |-> 2] }

MaxDate == 2

NoIndicators ==
    [atr |-> NaN, ema_9 |-> NaN, ema_21 |-> NaN,
     rsi_14 |-> [ok |-> FALSE, ag |-> NaN, al |-> NaN], vwap |-> NaN]

InitInd ==
    /\ ind_series = <<>>
    /\ ind_deque = <<>>
    /\ ind_batch = NoIndicators
    /\ ind_live = NoIndicators @@ [runner_vwap |-> NaN]

\* a 5-minute bar closes: on_new_5min_candle appends it to the deque and
\* recomputes the live indicators; the batch run sees the series so far
AppendBar(shape, newday) ==
    /\ Len(ind_series) < MaxBars
    /\ LET last == IF ind_series = <<>> THEN 1 ELSE ind_series[Len(ind_series)].date
           bar  == [date  |-> IF newday THEN last + 1 ELSE last,
                    high  |-> shape.high, low |-> shape.low, close |-> shape.close]
       IN  /\ newday => (ind_series # <<>> /\ last < MaxDate)
           /\ ind_series' = Append(ind_series, bar)
           /\ ind_deque' = DequeAppend(ind_deque, bar, Candles5mMaxlen)
           /\ ind_batch' = calculate_all_indicators(Append(ind_series, bar))
           /\ ind_live' = LiveIndicators(DequeAppend(ind_deque, bar, Candles5mMaxlen))
    /\ UNCHANGED nonIndVars

\* the quiet opening stretch of the stream
AppendFlatBar ==
    /\ Len(ind_series) < FlatBars
    /\ AppendBar(FlatBar, FALSE)

AppendFreeBar ==
    /\ Len(ind_series) >= FlatBars
    /\ \E shape \in IndBarShapes, newday \in BOOLEAN : AppendBar(shape, newday)

NextInd ==
    \/ AppendFlatBar
    \/ AppendFreeBar

\* ------------------------------------------------------------------------
\* Signal generators (strategy/*.py)
\* ------------------------------------------------------------------------
\* emitted prices are round(x, 2), kept in hundredths; rr is kept in
\* hundredths as well (rr = 150 is 1.5)
NaNv == -999

IsNa(x) == x = NaNv

\* the trade dict a generator appends
MakeTrade(strategy, type, entry, sl, sl_den, num, den, rr, time, features) ==
    [strategy |-> strategy, type |-> type,
     entry    |-> Round2(entry, 1),
     stoploss |-> Round2(sl, sl_den),
     target   |-> Round2(num, den),
     rr       |-> rr, time |-> time, features |-> features]

\* minutes_from_open of the k-th bar of a session that starts at `start`
MinutesFromOpen(start, pos) == start + 5 * (pos - 1)

\* rows of one series: bar k has datetime k; bars after `split` are of the
\* second session
MakeRows(shapes, split, start) ==
    [k \in 1..Len(shapes) |->
        shapes[k] @@
        [datetime |-> k,
         date     |-> IF k <= split THEN 1 ELSE 2,
         minutes_from_open |-> MinutesFromOpen(start, IF k <= split THEN k ELSE k - split)]]

\* ---------------- strategy/vwap_strategy.py ----------------
RrList == <<200, 300, 400>>

\* the raw OHLCV bars VWAPPullbackStrategy is given
PullbackShapes ==
    { [open |-> 2, high |-> 6, low |-> 2, close |-> 6, volume |-> 1],
      [open |-> 6, high |-> 6, low |-> 2, close |-> 2, volume |-> 1],
      [open |-> 4, high |-> 6, low |-> 2, close |-> 4, volume |-> 1] }

\* calculate_vwap: (tp * volume).cumsum() / volume.cumsum(), as the pair
\* (3 * numerator, 3 * denominator)
RECURSIVE CumTpVol(_, _)
CumTpVol(d, k) ==
    IF k = 0 THEN 0
    ELSE (d[k].high + d[k].low + d[k].close) * d[k].volume + CumTpVol(d, k - 1)

RECURSIVE CumVol(_, _)
CumVol(d, k) == IF k = 0 THEN 0 ELSE 3 * d[k].volume + CumVol(d, k - 1)

\* x > vwap[k], x < vwap[k], x <= vwap[k], x >= vwap[k]; all false on NaN
GtVwap(d, k, x) == CumVol(d, k) > 0 /\ x * CumVol(d, k) > CumTpVol(d, k)

LtVwap(d, k, x) == CumVol(d, k) > 0 /\ x * CumVol(d, k) < CumTpVol(d, k)

LeVwap(d, k, x) == CumVol(d, k) > 0 /\ x * CumVol(d, k) <= CumTpVol(d, k)

GeVwap(d, k, x) == CumVol(d, k) > 0 /\ x * CumVol(d, k) >= CumTpVol(d, k)

\* the signals of one loop iteration (lines 44-105), <<>> when the bar is
\* passed over
PullbackBar(d, k, rr_list) ==
    LET prev == d[k - 1]
        curr == d[k]
        candle_body  == Abs(curr.close - curr.open)
        candle_range == curr.high - curr.low
    IN  IF candle_range = 0 \/ 10 * candle_body < 3 * candle_range THEN <<>>
        ELSE IF GtVwap(d, k, curr.close) /\ LeVwap(d, k - 1, prev.low) /\ curr.close > curr.open
        THEN IF curr.high <= curr.low THEN <<>>
             ELSE [r \in 1..Len(rr_list) |->
                     MakeTrade("VWAP_PULLBACK", "BUY", curr.high, curr.low, 1,
                               100 * curr.high + (curr.high - curr.low) * rr_list[r], 100,
                               rr_list[r], curr.datetime, <<>>)]
        ELSE IF LtVwap(d, k, curr.close) /\ GeVwap(d, k - 1, prev.high) /\ curr.close < curr.open
        THEN IF curr.high <= curr.low THEN <<>>
             ELSE [r \in 1..Len(rr_list) |->
                     MakeTrade("VWAP_PULLBACK", "SELL", curr.low, curr.high, 1,
                               100 * curr.low - (curr.high - curr.low) * rr_list[r], 100,
                               rr_list[r], curr.datetime, <<>>)]
        ELSE <<>>

\* for i in range(1, len(df)): the loop from bar k on; self.trade_count is
\* read and written through the instance
RECURSIVE PullbackScan(_, _, _, _)
PullbackScan(self, d, k, signals) ==
    IF k > Len(d) \/ self.trade_count >= self.max_trades_per_day
    THEN [self |-> self, trades |-> signals]
    ELSE LET s == PullbackBar(d, k, self.rr_list)
         IN  PullbackScan(IF s = <<>> THEN self
                          ELSE [self EXCEPT !.trade_count = self.trade_count + 1],
                          d, k + 1, signals \o s)

VWAPPullback_generate_signals(self, d) == PullbackScan(self, d, 2, <<>>)

\* ---------------- strategy/ema_scalp_strategy.py ----------------
EmaScalpRr == 150

\* rows as calculate_all_indicators annotates them
EmaScalpShapes ==
    { [open |-> 112, high |-> 121, low |-> 108, close |-> 120, atr |-> 10, rsi_14 |-> 60,
       ema_9 |-> 112, ema_21 |-> 110, vwap |-> 115],
      [open |-> 112, high |-> 113, low |-> 107, close |-> 108, atr |-> 10, rsi_14 |-> 40,
       ema_9 |-> 109, ema_21 |-> 110, vwap |-> 115],
      [open |-> 112, high |-> 121, low |-> 108, close |-> 120, atr |-> NaNv, rsi_14 |-> NaNv,
       ema_9 |-> 112, ema_21 |-> 110, vwap |-> 115] }

\* the trades of one loop iteration (lines 41-116) once the day's count
\* allowed the bar
EmaScalpBar(self, d, k) ==
    LET curr == d[k]
        prev == d[k - 1]
        ema_crossed_up   == prev.ema_9 <= prev.ema_21 /\ curr.ema_9 > curr.ema_21
        ema_crossed_down == prev.ema_9 >= prev.ema_21 /\ curr.ema_9 < curr.ema_21
        sl_buy  == Max(curr.ema_21, curr.low) - 5
        sl_sell == Min(curr.ema_21, curr.high) + 5
        buy  == IF /\ ema_crossed_up /\ curr.rsi_14 > 48
                   /\ curr.close > curr.vwap /\ curr.close > curr.open
                   /\ curr.close > sl_buy
                   /\ ~ (2 * (curr.close - sl_buy) > 3 * curr.atr)
                   /\ ~ (10 * (curr.close - sl_buy) < 3 * curr.atr)
                THEN << MakeTrade("EMA_SCALP", "BUY", curr.close, sl_buy, 1,
                                  100 * curr.close + (curr.close - sl_buy) * self.rr, 100,
                                  self.rr, curr.datetime, <<>>) >>
                ELSE <<>>
        \* a `continue` in the BUY block skips the SELL block
        buy_continue == /\ ema_crossed_up /\ curr.rsi_14 > 48
                        /\ curr.close > curr.vwap /\ curr.close > curr.open
                        /\ buy = <<>>
        sell == IF /\ ~ buy_continue
                   /\ ema_crossed_down /\ curr.rsi_14 < 52
                   /\ curr.close < curr.vwap /\ curr.close < curr.open
                   /\ curr.close < sl_sell
                   /\ ~ (2 * (sl_sell - curr.close) > 3 * curr.atr)
                   /\ ~ (10 * (sl_sell - curr.close) < 3 * curr.atr)
                THEN << MakeTrade("EMA_SCALP", "SELL", curr.close, sl_sell, 1,
                                  100 * curr.close - (sl_sell - curr.close) * self.rr, 100,
                                  self.rr, curr.datetime, <<>>) >>
                ELSE <<>>
    IN  IF curr.minutes_from_open < 15 \/ curr.minutes_from_open > 330 THEN <<>>
        ELSE IF IsNa(curr.atr) \/ curr.atr < 1 THEN <<>>
        ELSE IF IsNa(curr.rsi_14) THEN <<>>
        ELSE buy \o sell

\* trades_per_day.setdefault(date, 0) and the day's count
DayCount(per_day, date) == IF date \in DOMAIN per_day THEN per_day[date] ELSE 0

\* for i in range(2, len(df)): the loop from bar k on
RECURSIVE EmaScalpScan(_, _, _, _, _)
EmaScalpScan(self, d, k, trades_per_day, trades) ==
    IF k > Len(d) THEN trades
    ELSE LET date == d[k].date
             t == IF DayCount(trades_per_day, date) >= self.max_trades_per_day THEN <<>>
                  ELSE EmaScalpBar(self, d, k)
         IN  IF Len(t) >= 0
             THEN EmaScalpScan(self, d, k + 1,
                      [x \in DOMAIN trades_per_day \cup {date} |->
                          IF x = date THEN DayCount(trades_per_day, date) + Len(t)
                          ELSE trades_per_day[x]],
                      trades \o t)
             ELSE trades

EMAScalp_generate_trades(self, d) == EmaScalpScan(self, d, 3, << >>, <<>>)

\* ---------------- strategy/orb_strategy.py ----------------
OrbRr == 200

\* indicators.py lines 94-103: orb_high / orb_low of a session are the
\* max high / min low of group.head(3)
SessionRows(d, date) == { k \in 1..Len(d) : d[k].date = date }

HeadRows(d, date, n) ==
    { k \in SessionRows(d, date) : Cardinality({ m \in SessionRows(d, date) : m < k }) < n }

SetMax(S) == CHOOSE x \in S : \A y \in S : y <= x

SetMin(S) == CHOOSE x \in S : \A y \in S : x <= y

BatchOrbHigh(d, date) == SetMax({ d[k].high : k \in HeadRows(d, date, 3) })

BatchOrbLow(d, date) == SetMin({ d[k].low : k \in HeadRows(d, date, 3) })

WithOrb(d) ==
    [k \in 1..Len(d) |->
        d[k] @@ [orb_high |-> BatchOrbHigh(d, d[k].date), orb_low |-> BatchOrbLow(d, d[k].date)]]

\* the three opening bars of a session and the bars after them
OrbOpenings ==
    { << [open |-> 120, high |-> 140, low |-> 110, close |-> 130, atr |-> 10],
         [open |-> 130, high |-> 135, low |-> 100, close |-> 120, atr |-> 10],
         [open |-> 120, high |-> 125, low |-> 115, close |-> 120, atr |-> 10] >>,
      << [open |-> 120, high |-> 125, low |-> 115, close |-> 120, atr |-> 10],
         [open |-> 120, high |-> 125, low |-> 115, close |-> 120, atr |-> 10],
         [open |-> 120, high |-> 125, low |-> 115, close |-> 120, atr |-> 10] >> }

OrbShapes ==
    { [open |-> 138, high |-> 151, low |-> 137, close |-> 150, atr |-> 10],
      [open |-> 102, high |-> 103, low |-> 89,  close |-> 90,  atr |-> 10],
      [open |-> 120, high |-> 125, low |-> 115, close |-> 121, atr |-> 10] }

\* body_ratio > x / 10 on the row's own candle (indicators.py lines 60-62)
BodyRatioGt(row, x) == 10 * Abs(row.close - row.open) > x * (row.high - row.low)

\* the trades of one row of a session (lines 50-114); buys / sells are the
\* day's counts so far
OrbRow(self, row, orb_high, orb_low, buys, sells) ==
    LET orb_mid2  == orb_high + orb_low
        orb_range == orb_high - orb_low
        sl_b  == IF 10 * row.close <= 5 * Max(orb_mid2, 2 * row.low)
                 THEN 10 * row.close - 3 * orb_range
                 ELSE 5 * Max(orb_mid2, 2 * row.low)
        sl_s  == IF 10 * row.close >= 5 * Min(orb_mid2, 2 * row.high)
                 THEN 10 * row.close + 3 * orb_range
                 ELSE 5 * Min(orb_mid2, 2 * row.high)
        buy  == IF /\ buys < 1 /\ row.close > orb_high /\ row.close > row.open
                   /\ BodyRatioGt(row, 4) /\ 10 * row.close > sl_b
                THEN << MakeTrade("ORB", "BUY", row.close, sl_b, 10,
                                  1000 * row.close + (10 * row.close - sl_b) * self.rr, 1000,
                                  self.rr, row.datetime, <<>>) >>
                ELSE <<>>
        sell == IF /\ sells < 1 /\ row.close < orb_low /\ row.close < row.open
                   /\ BodyRatioGt(row, 4) /\ 10 * row.close < sl_s
                THEN << MakeTrade("ORB", "SELL", row.close, sl_s, 10,
                                  1000 * row.close - (sl_s - 10 * row.close) * self.rr, 1000,
                                  self.rr, row.datetime, <<>>) >>
                ELSE <<>>
    IN  IF row.minutes_from_open < 15 \/ row.minutes_from_open > 315 THEN <<>>
        ELSE IF IsNa(row.atr) \/ row.atr < 1 THEN <<>>
        ELSE buy \o sell

CountType(trades, type) == Cardinality({ n \in 1..Len(trades) : trades[n].type = type })

\* for idx in range(3, len(group)): the rows of one session from the
\* pos-th on; rows is the session's row numbers in order
RECURSIVE OrbSession(_, _, _, _, _)
OrbSession(self, d, rows, pos, trades) ==
    IF pos > Len(rows) THEN trades
    ELSE LET first == d[rows[1]]
             t == OrbRow(self, d[rows[pos]], first.orb_high, first.orb_low,
                         CountType(trades, "BUY"), CountType(trades, "SELL"))
         IN  IF Len(t) >= 0 THEN OrbSession(self, d, rows, pos + 1, trades \o t) ELSE trades

\* the rows of a session in order
RowsOf(d, date) == [n \in 1..Cardinality(SessionRows(d, date)) |->
                       CHOOSE k \in SessionRows(d, date) :
                           Cardinality({ m \in SessionRows(d, date) : m < k }) = n - 1]

\* one group of df.groupby("date") (lines 33-114)
OrbGroup(self, d, date) ==
    LET rows  == RowsOf(d, date)
        first == d[rows[1]]
        orb_range == first.orb_high - first.orb_low
    IN  IF Len(rows) < 5 THEN <<>>
        ELSE IF orb_range < 30 \/ orb_range > 300 THEN <<>>
        ELSE OrbSession(self, d, rows, 4, <<>>)

Dates(d) == { d[k].date : k \in 1..Len(d) }

\* groupby iterates the dates in ascending order
RECURSIVE OrbGroups(_, _, _)
OrbGroups(self, d, dates) ==
    IF dates = {} THEN <<>>
    ELSE OrbGroup(self, d, SetMin(dates)) \o OrbGroups(self, d, dates \ {SetMin(dates)})

ORB_generate_trades(self, d) == OrbGroups(self, d, Dates(d))

\* ---------------- strategy/abcd_strategy.py ----------------
AbcdRr == 400

AbcdShapes ==
    { [high |-> 4, low |-> 2, close |-> 3, vwap |-> 3, atr |-> NaNv],
      [high |-> 6, low |-> 4, close |-> 5, vwap |-> 4, atr |-> NaNv],
      [high |-> 8, low |-> 6, close |-> 6, vwap |-> 5, atr |-> NaNv] }

\* the trade dict of lines 12-25 / 28-41: entry and stoploss as read from
\* the row, no target
AbcdTrade(self, type, d, stop) ==
    [strategy |-> "ABCD", type |-> type,
     entry    |-> 100 * d.close,
     stoploss |-> 100 * stop,
     target   |-> NaNv,
     rr       |-> self.rr, time |-> d.datetime,
     features |-> [vwap_distance    |-> Abs(d.close - d.vwap),
                   candle_size      |-> d.high - d.low,
                   atr              |-> d.atr,
                   pattern_strength |-> 1]]

\* one loop iteration (lines 9-41)
AbcdBar(self, df_, k) ==
    LET a == df_[k - 3]
        b == df_[k - 2]
        c == df_[k - 1]
        d == df_[k]
    IN  IF b.high > a.high /\ c.low > a.low /\ d.close > c.close
        THEN << AbcdTrade(self, "BUY", d, d.low) >>
        ELSE IF b.low < a.low /\ c.high < a.high /\ d.close < c.close
        THEN << AbcdTrade(self, "SELL", d, d.high) >>
        ELSE <<>>

\* for i in range(3, len(df))
RECURSIVE AbcdScan(_, _, _)
AbcdScan(self, df_, k) ==
    IF k > Len(df_) THEN <<>>
    ELSE AbcdBar(self, df_, k) \o AbcdScan(self, df_, k + 1)

ABCD_generate_trades(self, df_) == AbcdScan(self, df_, 4)

\* ---------------- ml/features.py, strategy/vwap_reversion_strategy.py ----------------
ReversionRr == 150

BbPeriod == 20

VolatilityWindow == 20

\* rows k (1-based) of the frame calculate_all_indicators returns at which
\* a column is not NaN: rolling(14) ATR and min_periods=14 RSI from row 14,
\* rolling(20) Bollinger bands from row 20, shift(1) columns from row 2,
\* rolling(20) of pct_change (NaN in row 1) from row 21
FirstValid ==
    [atr |-> AtrPeriod, rsi_14 |-> RsiPeriod, bb_position |-> BbPeriod, bb_width |-> BbPeriod,
     prev_body_ratio |-> 2, prev_candle_size_norm |-> 2,
     volatility_regime |-> VolatilityWindow + 1]

\* the columns of row k that can be NaN; where defined the value is the
\* shape's (atr) or an arbitrary number (1)
Annotated(shape, k) ==
    shape @@
    [atr     |-> IF k >= FirstValid.atr THEN shape.atr_value ELSE NaNv,
     rsi_14  |-> IF k >= FirstValid.rsi_14 THEN 50 ELSE NaNv,
     bb_position |-> IF k >= FirstValid.bb_position THEN 1 ELSE NaNv,
     bb_width    |-> IF k >= FirstValid.bb_width THEN 1 ELSE NaNv,
     prev_body_ratio       |-> IF k >= FirstValid.prev_body_ratio THEN 1 ELSE NaNv,
     prev_candle_size_norm |-> IF k >= FirstValid.prev_candle_size_norm THEN 1 ELSE NaNv,
     volatility_regime     |-> IF k >= FirstValid.volatility_regime THEN 1 ELSE NaNv]

\* extract_features(row, strategy, entry, stoploss, rr): the entries that
\* can be NaN (the other columns are defined on every row); sl_dist is
\* |entry - stoploss| in tenths, atr_safe = max(atr, 0.01) is NaN on NaN
extract_features(row, sl_dist, rr) ==
    [rsi_14      |-> row.rsi_14,
     bb_position |-> row.bb_position,
     bb_width    |-> row.bb_width,
     prev_body_ratio       |-> row.prev_body_ratio,
     prev_candle_size_norm |-> row.prev_candle_size_norm,
     volatility_regime     |-> row.volatility_regime,
     atr         |-> row.atr,
     rr          |-> rr,
     sl_distance_norm |-> IF IsNa(row.atr) THEN NaNv ELSE sl_dist \div row.atr]

ReversionQuiet ==
    [open |-> 115, high |-> 116, low |-> 110, close |-> 115, vwap |-> 120, atr_value |-> 10]

ReversionShapes ==
    { ReversionQuiet,
      [open |-> 108, high |-> 113, low |-> 107, close |-> 112, vwap |-> 120, atr_value |-> 10],
      [open |-> 132, high |-> 133, low |-> 127, close |-> 128, vwap |-> 120, atr_value |-> 10] }

\* the trades of one loop iteration (lines 41-116) once the day's count
\* allowed the bar; stops and distances in tenths
ReversionBar(self, d, k) ==
    LET curr == d[k]
        prev == d[k - 1]
        atr   == curr.atr
        vwap  == curr.vwap
        close == curr.close
        sl0_b   == 10 * (Min(curr.low, prev.low) - 3)
        capped_b == 10 * close - sl0_b <= 0 \/ 10 * close - sl0_b > 12 * atr
        sl_b    == IF capped_b THEN 10 * close - 8 * atr ELSE sl0_b
        sl0_s   == 10 * (Max(curr.high, prev.high) + 3)
        capped_s == sl0_s - 10 * close <= 0 \/ sl0_s - 10 * close > 12 * atr
        sl_s    == IF capped_s THEN 10 * close + 8 * atr ELSE sl0_s
        buy  == IF /\ 10 * (vwap - close) > 4 * atr /\ close > curr.open
                   /\ 100 * Abs(close - curr.open) > 35 * (curr.high - curr.low)
                   /\ prev.close < vwap
                   /\ 10 * close - sl_b > 2 * atr
                THEN << MakeTrade("VWAP_REVERSION", "BUY", close, sl_b, 10,
                                  1000 * close + (10 * close - sl_b) * self.rr, 1000,
                                  self.rr, curr.datetime,
                                  extract_features(curr, 10 * close - sl_b, self.rr)) >>
                ELSE <<>>
        sell == IF /\ 10 * (close - vwap) > 4 * atr /\ close < curr.open
                   /\ 100 * Abs(close - curr.open) > 35 * (curr.high - curr.low)
                   /\ prev.close > vwap
                   /\ sl_s - 10 * close > 2 * atr
                THEN << MakeTrade("VWAP_REVERSION", "SELL", close, sl_s, 10,
                                  1000 * close - (sl_s - 10 * close) * self.rr, 1000,
                                  self.rr, curr.datetime,
                                  extract_features(curr, sl_s - 10 * close, self.rr)) >>
                ELSE <<>>
    IN  IF curr.minutes_from_open < 15 \/ curr.minutes_from_open > 330 THEN <<>>
        ELSE IF IsNa(curr.atr) \/ curr.atr < 1 THEN <<>>
        ELSE IF IsNa(curr.vwap) THEN <<>>
        ELSE buy \o sell

\* for i in range(2, len(df)): the loop from bar k on
RECURSIVE ReversionScan(_, _, _, _, _)
ReversionScan(self, d, k, trades_per_day, trades) ==
    IF k > Len(d) THEN trades
    ELSE LET date == d[k].date
             t == IF DayCount(trades_per_day, date) >= self.max_trades_per_day THEN <<>>
                  ELSE ReversionBar(self, d, k)
         IN  IF Len(t) >= 0
             THEN ReversionScan(self, d, k + 1,
                      [x \in DOMAIN trades_per_day \cup {date} |->
                          IF x = date THEN DayCount(trades_per_day, date) + Len(t)
                          ELSE trades_per_day[x]],
                      trades \o t)
             ELSE trades

VWAPReversion_generate_trades(self, d) == ReversionScan(self, d, 3, << >>, <<>>)

\* ---------------- the instance and the calls made on it ----------------
\* max_trades_per_day as the constructor is given it
GenCaps == {1, 2}

\* all series of 2..MaxRows rows over a set of shapes
RowSeries(shapes, start) ==
    UNION { { MakeRows(q, split, start) : q \in [1..n -> shapes], split \in 1..n } :
            n \in 2..MaxRows }

NoTrades == <<>>

InitPullback ==
    /\ gen_kind = "VWAP_PULLBACK"
    /\ gen_df \in RowSeries(PullbackShapes, 0)
    /\ \E cap \in GenCaps :
          gen_self = [max_trades_per_day |-> cap, rr_list |-> RrList, trade_count |-> 0]

InitEmaScalp ==
    /\ gen_kind = "EMA_SCALP"
    /\ gen_df \in RowSeries(EmaScalpShapes, 15)
    /\ \E cap \in GenCaps : gen_self = [rr |-> EmaScalpRr, max_trades_per_day |-> cap]

\* one or two sessions, each three opening bars and 1..MaxTail further rows
OrbSessions ==
    UNION { { o \o t : o \in OrbOpenings, t \in [1..n -> OrbShapes] } : n \in 1..MaxTail }

OrbSeries ==
    { WithOrb(MakeRows(a, Len(a), 0)) : a \in OrbSessions } \cup
    { WithOrb(MakeRows(a \o b, Len(a), 0)) : a \in OrbSessions, b \in OrbSessions }

InitOrb ==
    /\ gen_kind = "ORB"
    /\ gen_df \in OrbSeries
    /\ gen_self = [rr |-> OrbRr, max_trades_per_day |-> 2]

InitAbcd ==
    /\ gen_kind = "ABCD"
    /\ gen_df \in RowSeries(AbcdShapes, 0)
    /\ gen_self = [rr |-> AbcdRr]

\* the whole frame of one session, warm-up rows included: quiet rows while
\* the ATR is NaN, then 1..MaxFree rows
ReversionSeries ==
    UNION { { LET shapes == [k \in 1..(AtrPeriod - 1) |-> ReversionQuiet] \o t
                  rows   == MakeRows(shapes, Len(shapes), 0)
              IN  [k \in 1..Len(rows) |-> Annotated(rows[k], k)] :
              t \in [1..n -> ReversionShapes] } : n \in 1..MaxFree }

InitReversion ==
    /\ gen_kind = "VWAP_REVERSION"
    /\ gen_df \in ReversionSeries
    /\ \E cap \in GenCaps : gen_self = [rr |-> ReversionRr, max_trades_per_day |-> cap]

InitGen ==
    /\ \/ InitPullback
       \/ InitEmaScalp
       \/ InitOrb
       \/ InitAbcd
       \/ InitReversion
    /\ gen_calls = 0
    /\ gen_before = gen_self
    /\ gen_first = NoTrades
    /\ gen_trades = NoTrades

\* a call returns: the instance and the returned list are recorded
Returned(self, trades) ==
    /\ gen_calls < MaxCalls
    /\ gen_calls' = gen_calls + 1
    /\ gen_before' = gen_self
    /\ gen_self' = self
    /\ gen_trades' = trades
    /\ gen_first' = IF gen_calls = 0 THEN trades ELSE gen_first
    /\ UNCHANGED <<gen_kind, gen_df>>
    /\ UNCHANGED nonGenVars

CallPullback ==
    /\ gen_kind = "VWAP_PULLBACK"
    /\ LET r == VWAPPullback_generate_signals(gen_self, gen_df)
       IN  Returned(r.self, r.trades)

CallEmaScalp ==
    /\ gen_kind = "EMA_SCALP"
    /\ Returned(gen_self, EMAScalp_generate_trades(gen_self, gen_df))

CallOrb ==
    /\ gen_kind = "ORB"
    /\ Returned(gen_self, ORB_generate_trades(gen_self, gen_df))

CallAbcd ==
    /\ gen_kind = "ABCD"
    /\ Returned(gen_self, ABCD_generate_trades(gen_self, gen_df))

CallReversion ==
    /\ gen_kind = "VWAP_REVERSION"
    /\ Returned(gen_self, VWAPReversion_generate_trades(gen_self, gen_df))

NextGen ==
    \/ CallPullback
    \/ CallEmaScalp
    \/ CallOrb
    \/ CallAbcd
    \/ CallReversion

\* ------------------------------------------------------------------------
\* Batch columns of calculate_all_indicators on a growing series
\* ------------------------------------------------------------------------
\* daily = df.groupby("date").agg(high max, low min, close last); the
\* pivot levels are kept times 3
DailyHigh(d, date) == SetMax({ d[k].high : k \in SessionRows(d, date) })

DailyLow(d, date) == SetMin({ d[k].low : k \in SessionRows(d, date) })

DailyClose(d, date) == d[SetMax(SessionRows(d, date))].close

DailyPivots(d, date) ==
    LET h == DailyHigh(d, date)
        l == DailyLow(d, date)
        pivot3 == h + l + DailyClose(d, date)
    IN  [pivot |-> pivot3,
         r1 |-> 2 * pivot3 - 3 * l,
         r2 |-> pivot3 + 3 * (h - l),
         s1 |-> 2 * pivot3 - 3 * h,
         s2 |-> pivot3 - 3 * (h - l)]

NoPivots == [pivot |-> NaNv, r1 |-> NaNv, r2 |-> NaNv, s1 |-> NaNv, s2 |-> NaNv]

\* the pivots merged onto the rows of `date` with no shift
BatchPivots_SameDay(d, date) == DailyPivots(d, date)

\* daily[...].shift(1) merged on date: the row of the date before `date` in
\* the daily table
BatchPivots(d, date) ==
    LET before == { x \in Dates(d) : x < date }
    IN  IF before = {} THEN NoPivots ELSE DailyPivots(d, SetMax(before))

\* ml/build_training_data.py lines 50-67: daily pivots merged on the same date
LegacyPivot(d, date) == DailyHigh(d, date) + DailyLow(d, date) + DailyClose(d, date)

\* the columns attached to row k
Columns(d, k) ==
    [pivots   |-> BatchPivots(d, d[k].date),
     orb_high |-> BatchOrbHigh(d, d[k].date),
     orb_low  |-> BatchOrbLow(d, d[k].date),
     vwap     |-> BatchVwap(d, k),
     ema_9    |-> BatchEma(d, k, 9),
     legacy_pivot |-> LegacyPivot(d, d[k].date)]

AllColumns(d) == [k \in 1..Len(d) |-> Columns(d, k)]

InitCol ==
    /\ col_df = <<>>
    /\ col_cols = <<>>
    /\ col_prev = <<>>

\* the series gains a bar and the pipeline is run again on all of it
ColAppend(shape, date) ==
    /\ Len(col_df) < MaxColBars
    /\ LET bar == [date |-> date, high |-> shape.high, low |-> shape.low, close |-> shape.close]
       IN  /\ col_df' = Append(col_df, bar)
           /\ col_cols' = AllColumns(Append(col_df, bar))
    /\ col_prev' = col_cols
    /\ UNCHANGED nonColVars

ColAppendSameDay ==
    \E shape \in IndBarShapes :
        ColAppend(shape, IF col_df = <<>> THEN 1 ELSE col_df[Len(col_df)].date)

ColAppendNewDay ==
    /\ col_df # <<>>
    /\ col_df[Len(col_df)].date < MaxColDate
    /\ \E shape \in IndBarShapes : ColAppend(shape, col_df[Len(col_df)].date + 1)

NextCol ==
    \/ ColAppendSameDay
    \/ ColAppendNewDay

\* ------------------------------------------------------------------------
\* Live ORB check (zerodha_stream_v2.on_new_5min_candle / check_orb_signal)
\* ------------------------------------------------------------------------
\* get_live_indicators returns None below this many candles
WarmupCandles == 21

\* candles already in the deque when the session opens
WarmLens == {17, 25}

LiveOrbShapes ==
    OrbShapes \cup { [open |-> 120, high |-> 140, low |-> 100, close |-> 130, atr |-> 10] }

\* orb_state = {"date": None, "high": None, "low": None, "candle_count": 0}
NoOrbState == [date |-> NaNv, high |-> NaNv, low |-> NaNv, candle_count |-> 0, traded |-> {}]

\* check_orb_signal(candle, indicators) with today = 1: the new orb_state
\* and the type of the trade returned ("-" for None)
check_orb_signal(state, candle) ==
    LET st0 == IF state.date # 1
               THEN [date |-> 1, high |-> NaNv, low |-> NaNv, candle_count |-> 0, traded |-> {}]
               ELSE state
        st  == [st0 EXCEPT !.candle_count = st0.candle_count + 1]
        orb_range == st.high - st.low
        \* sl in tenths, after the fallback of lines 310-311 / 327-328
        sl_b == IF 10 * candle.close <= 5 * Max(st.high + st.low, 2 * candle.low)
                THEN 10 * candle.close - 3 * orb_range
                ELSE 5 * Max(st.high + st.low, 2 * candle.low)
        sl_s == IF 10 * candle.close >= 5 * Min(st.high + st.low, 2 * candle.high)
                THEN 10 * candle.close + 3 * orb_range
                ELSE 5 * Min(st.high + st.low, 2 * candle.high)
    IN  IF st.candle_count <= 3
        THEN [state |-> IF IsNa(st.high)
                        THEN [st EXCEPT !.high = candle.high, !.low = candle.low]
                        ELSE [st EXCEPT !.high = Max(st.high, candle.high),
                                        !.low = Min(st.low, candle.low)],
              signal |-> "-"]
        ELSE IF orb_range < 30 \/ orb_range > 300 THEN [state |-> st, signal |-> "-"]
        ELSE IF /\ "BUY" \notin st.traded /\ candle.close > st.high
                /\ candle.close > candle.open /\ BodyRatioGt(candle, 4)
                /\ 10 * candle.close > sl_b
        THEN [state |-> [st EXCEPT !.traded = st.traded \cup {"BUY"}], signal |-> "BUY"]
        ELSE IF /\ "SELL" \notin st.traded /\ candle.close < st.low
                /\ candle.close < candle.open /\ BodyRatioGt(candle, 4)
                /\ 10 * candle.close < sl_s
        THEN [state |-> [st EXCEPT !.traded = st.traded \cup {"SELL"}], signal |-> "SELL"]
        ELSE [state |-> st, signal |-> "-"]

InitOrbLive ==
    /\ orb_len \in WarmLens
    /\ orb_today = <<>>
    /\ orb_state = NoOrbState
    /\ orb_signal = "-"

\* on_new_5min_candle(candle): the k-th candle of the session is complete
\* at 9:15 + 5k minutes
OnNew5minCandle(shape) ==
    /\ Len(orb_today) < MaxOrbBars
    /\ LET candle  == shape @@ [date |-> 1]
           n       == Min(orb_len + 1, Candles5mMaxlen)
           minutes == 5 * (Len(orb_today) + 1)
           r       == check_orb_signal(orb_state, candle)
       IN  /\ orb_today' = Append(orb_today, candle)
           /\ orb_len' = n
           /\ IF n < WarmupCandles \/ minutes < 15 \/ minutes > 330
              THEN /\ orb_state' = orb_state
                   /\ orb_signal' = "-"
              ELSE /\ orb_state' = r.state
                   /\ orb_signal' = r.signal
    /\ UNCHANGED nonOrbVars

OnNew5minCandleGated ==
    /\ (Min(orb_len + 1, Candles5mMaxlen) < WarmupCandles \/ Len(orb_today) + 1 < 3)
    /\ \E shape \in LiveOrbShapes : OnNew5minCandle(shape)

OnNew5minCandleChecked ==
    /\ ~ (Min(orb_len + 1, Candles5mMaxlen) < WarmupCandles \/ Len(orb_today) + 1 < 3)
    /\ \E shape \in LiveOrbShapes : OnNew5minCandle(shape)

NextOrb ==
    \/ OnNew5minCandleGated
    \/ OnNew5minCandleChecked

\* ------------------------------------------------------------------------
\* The decision filters (src/ml/ai_filter_v2.py, src/ml/ai_filter.py)
\* Probabilities and thresholds are kept in ten-thousandths.
\* ------------------------------------------------------------------------
MaxFilterCalls == 2

\* ai_filter_v2.STRATEGY_THRESHOLDS
STRATEGY_THRESHOLDS ==
    [ORB |-> 4500, EMA_SCALP |-> 4200, VWAP_REVERSION |-> 4200,
     MOMENTUM_SURGE |-> 4400, PIVOT_SCALP |-> 4800]

DEFAULT_THRESHOLD == 5000

\* config.STRATEGY_THRESHOLDS, which ai_filter imports
Config_STRATEGY_THRESHOLDS ==
    [ORB |-> 4800, EMA_SCALP |-> 4600, VWAP_REVERSION |-> 4500,
     MOMENTUM_SURGE |-> 4800, PIVOT_SCALP |-> 4600,
     PIVOT |-> 5000, VWAP_PULLBACK |-> 5000, ABCD |-> 5000]

\* dict.get(key, default)
Get(d, key, default) == IF key \in DOMAIN d THEN d[key] ELSE default

\* round(prob, 3)
Round3(prob) == ((prob + 5) \div 10) * 10

NoProb == -1

NoModelProbability == 5500

Raised == [raised |-> TRUE, decision |-> "-", probability |-> NoProb,
           threshold |-> NoProb, confidence |-> "-"]

NoCall == [raised |-> FALSE, decision |-> "-", probability |-> NoProb,
           threshold |-> NoProb, confidence |-> "-"]

\* bundle["features"]: the head of ml.features.FEATURE_COLUMNS
FEATURES == <<"strategy_encoded", "rsi_14", "ema_9_dist">>

\* a feature dict holding every schema feature
CompleteFeatures == [strategy_encoded |-> 1, rsi_14 |-> 55, ema_9_dist |-> 12]

\* the feature dicts a trade may carry: complete, one key missing, one value
\* None, one value NaN, an extra key, and none of the schema's keys
FeatureDicts ==
    {CompleteFeatures,
     [k \in DOMAIN CompleteFeatures \ {"strategy_encoded"} |-> CompleteFeatures[k]],
     [CompleteFeatures EXCEPT !.rsi_14 = None],
     [CompleteFeatures EXCEPT !.ema_9_dist = NaNv],
     [pattern_strength |-> 3] @@ CompleteFeatures,
     [pattern_strength |-> 3]}

\* the trades handed to the filters: every configured name, a name no
\* table holds, and a trade without the key, with complete features; ORB
\* trades and trades without a name with each of the feature dicts
FilterTrades ==
    {[strategy |-> name, rr |-> 150, features |-> CompleteFeatures] :
        name \in DOMAIN Config_STRATEGY_THRESHOLDS \cup {"UNKNOWN", "GAP_FADE"}}
    \cup {[strategy |-> "ORB", rr |-> 150, features |-> f] : f \in FeatureDicts}
    \cup {[rr |-> 150, features |-> f] : f \in FeatureDicts}

\* what the oracle may answer: each configured threshold and each band
\* edge above it, with the neighbours one ten-thousandth away
FilterProbs ==
    {t + e : t \in {4200, 4400, 4500, 4600, 4800, 5000},
             e \in {-1, 0, 1, 499, 500, 501, 1499, 1500, 1501}}

\* the answers near the thresholds the two tables hold for a trade
ProbsFor(t) ==
    LET near == {Get(STRATEGY_THRESHOLDS, Get(t, "strategy", "UNKNOWN"), DEFAULT_THRESHOLD),
                 Get(Config_STRATEGY_THRESHOLDS, Get(t, "strategy", "None"), 5000)}
    IN {prob \in FilterProbs : \E th \in near : prob - th \in -1..1501}

\* the row built feature by feature: a missing key, None and NaN become 0
FeatureRow_NoFill(features) ==
    [k \in 1..Len(FEATURES) |-> Get(features, FEATURES[k], 0)]

FeatureRow(features) ==
    [k \in 1..Len(FEATURES) |->
        LET val == Get(features, FEATURES[k], 0)
        IN IF val = None \/ IsNa(val) THEN 0 ELSE val]

\* _load_model: loads once, leaves the globals None when the file is
\* missing, and lets joblib.load raise when the file cannot be loaded
load_model(file, bundle) ==
    IF bundle # "None" THEN [raised |-> FALSE, bundle |-> bundle]
    ELSE IF file = "missing" THEN [raised |-> FALSE, bundle |-> "None"]
    ELSE IF file = "unloadable" THEN [raised |-> TRUE, bundle |-> "None"]
    ELSE [raised |-> FALSE, bundle |-> "loaded"]

Decision_Strict(prob, threshold) == IF prob > threshold THEN "TAKE" ELSE "SKIP"

Decision(prob, threshold) == IF prob >= threshold THEN "TAKE" ELSE "SKIP"

Confidence_Exclusive(prob, threshold) ==
    IF prob > threshold + 1500 THEN "HIGH"
    ELSE IF prob > threshold + 500 THEN "MEDIUM"
    ELSE "LOW"

Confidence(prob, threshold) ==
    IF prob >= threshold + 1500 THEN "HIGH"
    ELSE IF prob >= threshold + 500 THEN "MEDIUM"
    ELSE "LOW"

\* ai_filter_v2(trade) with the globals as they are after _load_model
ai_filter_v2(model, t, prob) ==
    IF model = "None"
    THEN [raised |-> FALSE, decision |-> "TAKE", probability |-> NoModelProbability,
          threshold |-> DEFAULT_THRESHOLD, confidence |-> "NO_MODEL"]
    ELSE LET strategy == Get(t, "strategy", "UNKNOWN")
             threshold == Get(STRATEGY_THRESHOLDS, strategy, DEFAULT_THRESHOLD)
         IN [raised |-> FALSE, decision |-> Decision(prob, threshold),
             probability |-> Round3(prob), threshold |-> threshold,
             confidence |-> Confidence(prob, threshold)]

\* ai_filter(trade, df, bias, regime); build_features never returns None
ai_filter(t, prob) ==
    LET strategy_name == Get(t, "strategy", "None")
        threshold == Get(Config_STRATEGY_THRESHOLDS, strategy_name, 5000)
    IN [raised |-> FALSE, decision |-> Decision(prob, threshold),
        probability |-> Round3(prob), threshold |-> threshold,
        confidence |-> "-"]

InitFilter ==
    /\ flt_file \in {"missing", "unloadable", "ok"}
    /\ flt_bundle = "None"
    /\ flt_calls = 0
    /\ flt_version = "-"
    /\ flt_trade = [rr |-> 150, features |-> CompleteFeatures]
    /\ flt_row = <<>>
    /\ flt_prob = NoProb
    /\ flt_out = NoCall

CallAiFilterV2 ==
    /\ flt_calls < MaxFilterCalls
    /\ \E t \in FilterTrades : \E prob \in ProbsFor(t) :
          LET loaded == load_model(flt_file, flt_bundle) IN
          /\ flt_calls' = flt_calls + 1
          /\ flt_version' = "v2"
          /\ flt_trade' = t
          /\ flt_bundle' = loaded.bundle
          /\ flt_row' = IF loaded.raised \/ loaded.bundle = "None" THEN <<>>
                        ELSE FeatureRow(t.features)
          /\ flt_prob' = IF loaded.raised \/ loaded.bundle = "None" THEN NoProb ELSE prob
          /\ flt_out' = IF loaded.raised THEN Raised
                        ELSE ai_filter_v2(loaded.bundle, t, prob)
    /\ UNCHANGED <<flt_file, nonFltVars>>

\* ml.ai_filter loads its bundle when it is imported, so it can be called
\* only where that load went through
CallAiFilter ==
    /\ flt_calls < MaxFilterCalls
    /\ flt_file = "ok"
    /\ \E t \in {u \in FilterTrades : u.features = CompleteFeatures} :
       \E prob \in ProbsFor(t) :
          /\ flt_calls' = flt_calls + 1
          /\ flt_version' = "v1"
          /\ flt_trade' = t
          /\ flt_row' = <<>>
          /\ flt_prob' = prob
          /\ flt_out' = ai_filter(t, prob)
    /\ UNCHANGED <<flt_file, flt_bundle, nonFltVars>>

NextFilter ==
    \/ CallAiFilterV2
    \/ CallAiFilter

\* ------------------------------------------------------------------------
\* The live trade handler (src/live/live_engine_v2.py)
\* ------------------------------------------------------------------------
MaxEngineDate == 2

MAX_TRADES_PER_DAY == 5

EngineDates == 1..MaxEngineDate

\* the signals on_new_5min_candle hands over
EngineTrades ==
    {[strategy |-> "ORB", type |-> "BUY", entry |-> 60530, rr |-> 200,
      features |-> CompleteFeatures],
     [strategy |-> "EMA_SCALP", type |-> "SELL", entry |-> 60480, rr |-> 150,
      features |-> CompleteFeatures]}

\* what the oracle answers for them: around the ORB threshold
EngineProbs == {4499, 4500}

reset_daily_state_KeepCount(daily, today) ==
    IF daily.date # today
    THEN [date |-> today, count |-> daily.count, trades |-> <<>>]
    ELSE daily

reset_daily_state(daily, today) ==
    IF daily.date # today
    THEN [date |-> today, count |-> 0, trades |-> <<>>]
    ELSE daily

\* what requests.post(url, json=payload, timeout=5) comes back with: a
\* response with a status code, or an exception of requests
PostOutcomes == {"200", "500", "Timeout", "ConnectionError"}

NoSend == [posts |-> 0, ok |-> FALSE, raised |-> FALSE, outcome |-> "-"]

InitEngine ==
    /\ le_today = 1
    /\ le_daily = [date |-> None, count |-> 0, trades |-> <<>>]
    /\ le_alerts = [d \in EngineDates |-> 0]
    /\ le_fresh = FALSE
    /\ le_tested = None
    /\ le_ret = "-"
    /\ le_send = NoSend
    /\ le_loop = "running"

\* the calendar date changes between two calls
Midnight ==
    /\ le_today < MaxEngineDate
    /\ le_today' = le_today + 1
    /\ UNCHANGED <<le_daily, le_alerts, le_fresh, le_tested, le_ret, le_send, le_loop,
                   nonEngVars>>

\* telegram_alert.send_telegram_alert(message): creds is whether BOT_TOKEN
\* and CHAT_ID are set; posts counts the calls of requests.post
send_telegram_alert_Propagate(creds, outcome) ==
    IF ~ creds THEN [posts |-> 0, ok |-> FALSE, raised |-> FALSE, outcome |-> "no credentials"]
    ELSE IF outcome = "200" THEN [posts |-> 1, ok |-> TRUE, raised |-> FALSE, outcome |-> outcome]
    ELSE IF outcome = "500" THEN [posts |-> 1, ok |-> FALSE, raised |-> FALSE, outcome |-> outcome]
    ELSE [posts |-> 1, ok |-> FALSE, raised |-> TRUE, outcome |-> outcome]

send_telegram_alert(creds, outcome) ==
    IF ~ creds THEN [posts |-> 0, ok |-> FALSE, raised |-> FALSE, outcome |-> "no credentials"]
    ELSE IF outcome = "200" THEN [posts |-> 1, ok |-> TRUE, raised |-> FALSE, outcome |-> outcome]
    ELSE IF outcome = "500" THEN [posts |-> 1, ok |-> FALSE, raised |-> FALSE, outcome |-> outcome]
    ELSE [posts |-> 1, ok |-> FALSE, raised |-> FALSE, outcome |-> outcome]

\* process_trade_v2(trade): file is what MODEL_PATH holds, creds and outcome
\* what send_telegram_alert meets. The "time" a tracked entry carries is
\* left out. An exception leaves the for-loop of on_new_5min_candle
\* (zerodha_stream_v2.py 548-550), which has no handler.
process_trade_v2(t, file, prob, creds, outcome) ==
    LET daily == reset_daily_state(le_daily, le_today)
        loaded == load_model(file, "None")
        ai_result == ai_filter_v2(loaded.bundle, t, prob)
        sent == send_telegram_alert(creds, outcome)
    IN /\ le_fresh' = (le_daily.date # le_today)
       /\ le_tested' = daily.count
       /\ IF daily.count >= MAX_TRADES_PER_DAY
          THEN /\ le_daily' = daily
               /\ le_ret' = "None"
               /\ le_send' = NoSend
               /\ UNCHANGED <<le_alerts, le_loop>>
          ELSE IF loaded.raised
          THEN /\ le_daily' = daily
               /\ le_ret' = "raised"
               /\ le_send' = NoSend
               /\ le_loop' = "dead"
               /\ UNCHANGED le_alerts
          ELSE IF ai_result.decision # "TAKE"
          THEN /\ le_daily' = daily
               /\ le_ret' = "None"
               /\ le_send' = NoSend
               /\ UNCHANGED <<le_alerts, le_loop>>
          ELSE IF sent.raised
          THEN /\ le_daily' = daily
               /\ le_ret' = "raised"
               /\ le_send' = sent
               /\ le_loop' = "dead"
               /\ UNCHANGED le_alerts
          ELSE /\ le_alerts' = IF sent.ok
                               THEN [le_alerts EXCEPT ![le_today] = @ + 1]
                               ELSE le_alerts
               /\ le_daily' = [daily EXCEPT
                                 !.count = @ + 1,
                                 !.trades = Append(@, [strategy |-> t.strategy,
                                                       type |-> t.type,
                                                       entry |-> t.entry])]
               /\ le_ret' = "trade"
               /\ le_send' = sent
               /\ UNCHANGED le_loop
       /\ UNCHANGED <<le_today, nonEngVars>>

\* on_new_5min_candle: for signal in signals: process_trade_v2(signal)
ProcessTradeV2 ==
    /\ le_loop = "running"
    /\ \E t \in EngineTrades, file \in {"missing", "unloadable", "ok"},
          prob \in EngineProbs, creds \in BOOLEAN, outcome \in PostOutcomes :
           process_trade_v2(t, file, prob, creds, outcome)

NextEngine ==
    \/ Midnight
    \/ ProcessTradeV2

\* ------------------------------------------------------------------------
\* The live exit manager (src/brain/live_exit_manager.py)
\* ------------------------------------------------------------------------
MaxAtr == 5

MaxOpen == 2

\* the trades the live path registers: entry 100 and the stop 8 away, and a
\* later ORB signal at the same entry with a closer stop
ExitTrades ==
    {[strategy |-> "ORB", type |-> "BUY", entry |-> 100, stoploss |-> 92],
     [strategy |-> "ORB", type |-> "BUY", entry |-> 100, stoploss |-> 96],
     [strategy |-> "EMA_SCALP", type |-> "SELL", entry |-> 100, stoploss |-> 108]}

\* df.iloc[-1]: close and atr of the newest candle; atr may be None
ExitCloses == {88, 94, 98, 102, 106, 112}

ExitAtrs == {None} \cup ((MaxAtr - 1)..MaxAtr)

\* key = f"{trade['strategy']}_{trade['entry']}"
TradeKey(t) == <<t.strategy, t.entry>>

\* lines 35-59: the stop one trade is left with
TrailedStop(t, last_price, atr) ==
    LET move == Abs(last_price - t.entry)
        breakeven == IF move > atr
                     THEN (IF t.type = "BUY" THEN Max(t.stoploss, t.entry)
                           ELSE Min(t.stoploss, t.entry))
                     ELSE t.stoploss
    IN IF move > atr * 2
       THEN (IF t.type = "BUY" THEN last_price - atr ELSE last_price + atr)
       ELSE breakeven

\* lines 64-72: the trade is put on to_remove
ExitHit(t, sl, last_price) ==
    IF t.type = "BUY" THEN last_price <= sl ELSE last_price >= sl

\* update_live_exits(df) on active_trades
update_live_exits(active, last_price, atr) ==
    LET updated == [key \in DOMAIN active |->
                       IF atr = None THEN active[key]
                       ELSE [active[key] EXCEPT
                               !.stoploss = TrailedStop(active[key], last_price, atr)]]
        to_remove == {key \in DOMAIN active :
                         /\ atr # None
                         /\ ExitHit(updated[key], updated[key].stoploss, last_price)}
    IN [key \in DOMAIN active \ to_remove |-> updated[key]]

NoActive == [key \in {} |-> 0]

InitExit ==
    /\ ex_active = NoActive
    /\ ex_before = NoActive
    /\ ex_last = [close |-> 0, atr |-> None]
    /\ ex_open = 0

\* active_trades[key] = trade
register_trade(active, t) ==
    [key \in DOMAIN active \cup {TradeKey(t)} |->
        IF key = TradeKey(t) THEN t ELSE active[key]]

\* a signal is registered once: t is not the trade its key already holds
RegisterTrade ==
    \E t \in ExitTrades :
        /\ ex_open < MaxOpen
        /\ \A key \in DOMAIN ex_active : ex_active[key] # t
        /\ ex_active' = register_trade(ex_active, t)
        /\ ex_before' = ex_active'
        /\ ex_open' = ex_open + 1
        /\ UNCHANGED <<ex_last, nonExitVars>>

UpdateLiveExits ==
    \E last_price \in ExitCloses, atr \in ExitAtrs :
        /\ ex_before' = ex_active
        /\ ex_last' = [close |-> last_price, atr |-> atr]
        /\ ex_active' = update_live_exits(ex_active, last_price, atr)
        /\ ex_open' = ex_open - Cardinality(DOMAIN ex_active \ DOMAIN ex_active')
        /\ UNCHANGED nonExitVars

NextExit ==
    \/ RegisterTrade
    \/ UpdateLiveExits

\* ------------------------------------------------------------------------
\* first_pullback_strategy (src/live/live_runner.py)
\* ------------------------------------------------------------------------
MaxLevel == 3

\* 5-minute candles as build_5m makes them (low <= open, close <= high):
\* rising candles, a candle dipping to 15 and one closing at 13
PullbackCandles ==
    {[open |-> 11 + 2 * l, high |-> 14 + 2 * l, low |-> 10 + 2 * l, close |-> 13 + 2 * l] :
        l \in 1..MaxLevel}
    \cup {[open |-> 18, high |-> 21, low |-> 15, close |-> 20],
          [open |-> 20, high |-> 20, low |-> 12, close |-> 13]}

\* calculate_vwap(candles_5m) of the moment
PullbackVwaps == {8, 16}

NoFlags == [TREND_CONFIRMED |-> FALSE, PULLBACK_SEEN |-> FALSE,
            TRADE_TAKEN |-> FALSE, VWAP_BREAK_COUNT |-> 0]

\* lines 197-206: the break counter and the reset
CountBreak(flags, c3, vwap) ==
    LET count == IF c3.close < vwap THEN flags.VWAP_BREAK_COUNT + 1 ELSE 0
    IN IF count >= 2 THEN NoFlags ELSE [flags EXCEPT !.VWAP_BREAK_COUNT = count]

\* line 187: if PULLBACK_SEEN and not TRADE_TAKEN
EntryAllowed_Again(flags) == flags.PULLBACK_SEEN

EntryAllowed(flags) == flags.PULLBACK_SEEN /\ ~ flags.TRADE_TAKEN

\* first_pullback_strategy(c5, vwap) on candles_5m, c5 already appended;
\* inside is what inside_liquidity(c3["close"]) answers
first_pullback_strategy(candles, flags, vwap, inside) ==
    IF Len(candles) < 4 THEN [flags |-> flags, ret |-> "None"]
    ELSE
    LET c1 == candles[Len(candles) - 2]
        c2 == candles[Len(candles) - 1]
        c3 == candles[Len(candles)]
        trend == IF /\ c3.high > c2.high /\ c2.high > c1.high
                    /\ c3.low > c2.low /\ c2.low > c1.low
                    /\ c3.close > vwap
                 THEN [flags EXCEPT !.TREND_CONFIRMED = TRUE] ELSE flags
        body == Abs(c3.close - c3.open)
        wick == c3.high - Max(c3.open, c3.close)
    IN IF ~ trend.TREND_CONFIRMED THEN [flags |-> trend, ret |-> "None"]
       ELSE IF 10 * wick > 6 * body THEN [flags |-> trend, ret |-> "None"]
       ELSE IF c3.low <= vwap \/ inside
            THEN [flags |-> [trend EXCEPT !.PULLBACK_SEEN = TRUE], ret |-> "None"]
       ELSE IF EntryAllowed(trend)
            THEN [flags |-> [trend EXCEPT !.TRADE_TAKEN = TRUE], ret |-> "trade"]
       ELSE [flags |-> CountBreak(trend, c3, vwap), ret |-> "None"]

InitPullbackLive ==
    /\ fp_candles = <<>>
    /\ fp_flags = NoFlags
    /\ fp_ret = "None"
    /\ fp_below = 0

\* candle_engine lines 278-288: a 5-minute candle closes
Close5m(c5, vwap, inside) ==
    LET appended == Append(fp_candles, c5)
        candles == IF Len(appended) > 4 THEN Tail(appended) ELSE appended
        out == first_pullback_strategy(candles, fp_flags, vwap, inside)
    IN /\ fp_candles' = candles
       /\ fp_flags' = out.flags
       /\ fp_ret' = out.ret
       /\ fp_below' = IF fp_flags.TRADE_TAKEN /\ c5.close < vwap
                      THEN Min(fp_below + 1, 2) ELSE 0
       /\ UNCHANGED nonFpVars

Close5mQuiet ==
    \E c5 \in PullbackCandles, vwap \in PullbackVwaps, inside \in BOOLEAN :
        /\ first_pullback_strategy(
               IF Len(fp_candles) = 4 THEN Append(Tail(fp_candles), c5)
               ELSE Append(fp_candles, c5), fp_flags, vwap, inside).ret = "None"
        /\ Close5m(c5, vwap, inside)

Close5mTrade ==
    \E c5 \in PullbackCandles, vwap \in PullbackVwaps, inside \in BOOLEAN :
        /\ first_pullback_strategy(
               IF Len(fp_candles) = 4 THEN Append(Tail(fp_candles), c5)
               ELSE Append(fp_candles, c5), fp_flags, vwap, inside).ret = "trade"
        /\ Close5m(c5, vwap, inside)

NextPullbackLive ==
    \/ Close5mQuiet
    \/ Close5mTrade

\* ------------------------------------------------------------------------
\* candle_engine pass by pass (src/live/live_runner.py)
\* ------------------------------------------------------------------------
MaxRunTicks == 7

MaxRunMinute == 6

InitRunner ==
    /\ rn_sent = 0
    /\ rn_buffer = <<>>
    /\ rn_minute = None
    /\ rn_1m = <<>>
    /\ rn_5m = <<>>

\* the minute of the newest tick handed over
RunnerClock ==
    IF rn_buffer # <<>> THEN rn_buffer[Len(rn_buffer)].exchange_timestamp
    ELSE IF rn_minute # None THEN rn_minute ELSE 1

\* on_ticks: a tick of the running minute or of a later one; the prices
\* alternate
RunnerTick ==
    /\ rn_sent < MaxRunTicks
    /\ \E m \in RunnerClock..MaxRunMinute :
          rn_buffer' = Append(rn_buffer,
              [id |-> rn_sent + 1, exchange_timestamp |-> m,
               last_price |-> 1 + (rn_sent % 2)])
    /\ rn_sent' = rn_sent + 1
    /\ UNCHANGED <<rn_minute, rn_1m, rn_5m, nonRunVars>>

\* lines 254-263: the first pass that finds a tick
RunnerFirstPass ==
    /\ rn_buffer # <<>>
    /\ rn_minute = None
    /\ rn_minute' = rn_buffer[Len(rn_buffer)].exchange_timestamp
    /\ UNCHANGED <<rn_sent, rn_buffer, rn_1m, rn_5m, nonRunVars>>

\* lines 265-299: the newest tick is of a later minute than current_minute.
\* calculate_atr is None below 15 five-minute candles, so ai_filter and
\* send_trade_alert are not reached here.
RunnerRollover ==
    /\ rn_buffer # <<>>
    /\ rn_minute # None
    /\ rn_buffer[Len(rn_buffer)].exchange_timestamp > rn_minute
    /\ LET c1 == build_1m_candle(rn_buffer)
           c1m == IF c1 # <<>> THEN DequeAppend(rn_1m, c1[1], RunnerMaxlen) ELSE rn_1m
       IN  /\ rn_1m' = c1m
           /\ rn_5m' = IF Len(c1m) >= 5 /\ Last5(c1m)[5].time % 5 = 0
                       THEN DequeAppend(rn_5m, build_5m(Last5(c1m)), RunnerMaxlen)
                       ELSE rn_5m
    /\ rn_buffer' = <<>>
    /\ rn_minute' = rn_buffer[Len(rn_buffer)].exchange_timestamp
    /\ UNCHANGED <<rn_sent, nonRunVars>>

NextRunner ==
    \/ RunnerTick
    \/ RunnerFirstPass
    \/ RunnerRollover

\* ------------------------------------------------------------------------
\* The run loop of backtest_v2 (src/backtest/backtest_v2.py 108-159)
\* ------------------------------------------------------------------------
MaxBtTrades == 6

\* signal times: date * 10 + bar of the date
BtTimes == {11, 12, 21}

\* trade["time"].date()
DateOf(time) == time \div 10

\* what the oracle answers for a signal's features: below or above every
\* configured threshold
BtProbs == {4000, 6000}

BtSignals ==
    {[strategy |-> "ORB", time |-> tm, features |-> CompleteFeatures, prob |-> p] :
        tm \in BtTimes, p \in BtProbs}

\* strat.generate_trades(df): the signals of one strategy, in scan order
GeneratedLists(n) ==
    {s \in [1..n -> BtSignals] : \A k \in 1..(n - 1) : s[k].time <= s[k + 1].time}

\* all_trades after the extend of two strategies' lists
ExtendedLists ==
    {a \o b : a \in GeneratedLists(MaxBtTrades \div 2),
              b \in GeneratedLists(MaxBtTrades - MaxBtTrades \div 2)}

\* list.sort(key=lambda t: t["time"]) is a stable sort: a trade is placed
\* behind the trades of an earlier or the same time
RECURSIVE InsertByTime(_, _)
InsertByTime(sorted, t) ==
    IF sorted = <<>> THEN <<t>>
    ELSE IF t.time < Head(sorted).time THEN <<t>> \o sorted
    ELSE <<Head(sorted)>> \o InsertByTime(Tail(sorted), t)

SortByTime_Unsorted(list) == list

RECURSIVE SortByTime(_)
SortByTime(list) ==
    IF list = <<>> THEN <<>>
    ELSE InsertByTime(SortByTime(SubSeq(list, 1, Len(list) - 1)), list[Len(list)])

\* ai_filter_v2(trade)["decision"] with the bundle loaded
BtDecision(t) == ai_filter_v2("loaded", t, t.prob).decision

InitBacktest ==
    /\ bt_pc = "collect"
    /\ bt_all \in ExtendedLists
    /\ bt_pos = 1
    /\ bt_daily = <<>>
    /\ bt_results = <<>>

\* line 116: all_trades.sort(key=lambda t: t["time"])
BtSort ==
    /\ bt_pc = "collect"
    /\ bt_all' = SortByTime(bt_all)
    /\ bt_pc' = "loop"
    /\ UNCHANGED <<bt_pos, bt_daily, bt_results, nonBtVars>>

\* daily_trades.setdefault(date, 0)
SetDefault(daily, date) ==
    [d \in DOMAIN daily \cup {date} |-> IF d \in DOMAIN daily THEN daily[d] ELSE 0]

\* lines 128-133: the date has its five trades
BtCapped ==
    /\ bt_pc = "loop"
    /\ bt_pos <= Len(bt_all)
    /\ LET date == DateOf(bt_all[bt_pos].time)
           daily == SetDefault(bt_daily, date)
       IN  /\ daily[date] >= 5
           /\ bt_daily' = daily
    /\ bt_pos' = bt_pos + 1
    /\ UNCHANGED <<bt_pc, bt_all, bt_results, nonBtVars>>

\* lines 136-139: the filter does not take the trade
BtFiltered ==
    /\ bt_pc = "loop"
    /\ bt_pos <= Len(bt_all)
    /\ LET date == DateOf(bt_all[bt_pos].time)
           daily == SetDefault(bt_daily, date)
       IN  /\ daily[date] < 5
           /\ BtDecision(bt_all[bt_pos]) # "TAKE"
           /\ bt_daily' = daily
    /\ bt_pos' = bt_pos + 1
    /\ UNCHANGED <<bt_pc, bt_all, bt_results, nonBtVars>>

\* lines 142-159: the trade is evaluated, counted and recorded
BtRecorded ==
    /\ bt_pc = "loop"
    /\ bt_pos <= Len(bt_all)
    /\ LET date == DateOf(bt_all[bt_pos].time)
           daily == SetDefault(bt_daily, date)
       IN  /\ daily[date] < 5
           /\ BtDecision(bt_all[bt_pos]) = "TAKE"
           /\ bt_daily' = [daily EXCEPT ![date] = @ + 1]
    /\ bt_results' = Append(bt_results, bt_pos)
    /\ bt_pos' = bt_pos + 1
    /\ UNCHANGED <<bt_pc, bt_all, nonBtVars>>

\* the for-loop is exhausted
BtFinish ==
    /\ bt_pc = "loop"
    /\ bt_pos > Len(bt_all)
    /\ bt_pc' = "done"
    /\ UNCHANGED <<bt_all, bt_pos, bt_daily, bt_results, nonBtVars>>

NextBacktest ==
    \/ BtSort
    \/ BtCapped
    \/ BtFiltered
    \/ BtRecorded
    \/ BtFinish

\* ------------------------------------------------------------------------
\* The live candle builders as functions of their lists
\* ------------------------------------------------------------------------
MaxBuildTicks == 2

MaxBuildCandles == 2

BuildPrices == {1, 2, 3}

NoBuilt == [kind |-> "-", len |-> 0, stream |-> <<>>, runner |-> <<>>]

InitBuilders ==
    /\ cb_ticks = <<>>
    /\ cb_candles = <<>>
    /\ cb_built = NoBuilt

\* on_ticks: a tick joins the list
BuilderTick ==
    /\ Len(cb_ticks) < MaxBuildTicks
    /\ \E p \in BuildPrices :
          cb_ticks' = Append(cb_ticks,
              [id |-> Len(cb_ticks) + 1, exchange_timestamp |-> 1 + Len(cb_candles),
               last_price |-> p])
    /\ UNCHANGED <<cb_candles, cb_built, nonCbVars>>

\* build_1min_candle(ticks) and build_1m_candle(ticks) on the list, empty
\* or not; a candle that comes back is kept for the aggregation
BuilderClose1m ==
    /\ Len(cb_candles) < MaxBuildCandles
    /\ cb_built' = [kind |-> "1m", len |-> Len(cb_ticks),
                    stream |-> build_1min_candle(cb_ticks),
                    runner |-> build_1m_candle(cb_ticks)]
    /\ cb_candles' = cb_candles \o build_1min_candle(cb_ticks)
    /\ cb_ticks' = <<>>
    /\ UNCHANGED nonCbVars

\* aggregate_5min(min_buffer) and build_5m(last5) on the candles kept
BuilderClose5m ==
    /\ cb_candles # <<>>
    /\ cb_built' = [kind |-> "5m", len |-> Len(cb_candles),
                    stream |-> <<aggregate_5min(cb_candles)>>,
                    runner |-> <<build_5m(cb_candles)>>]
    /\ cb_candles' = <<>>
    /\ UNCHANGED <<cb_ticks, nonCbVars>>

NextBuilders ==
    \/ BuilderTick
    \/ BuilderClose1m
    \/ BuilderClose5m

\* ------------------------------------------------------------------------
\* Specifications
\* ------------------------------------------------------------------------
\* the batch evaluators; the live loops are not started
InitIdleLive ==
    /\ loop = "off"
    /\ now = 0
    /\ delivered = 0
    /\ ticks_buffer = <<>>
    /\ buf_id = 0
    /\ p_pc = "idle"
    /\ p_ref = 0
    /\ p_ticks = <<>>
    /\ current_minute = None
    /\ w_pc = "top"
    /\ w_now = None
    /\ w_candle = <<>>
    /\ w_ids = <<>>
    /\ candles_1min = <<>>
    /\ min_buffer = <<>>
    /\ candles_5min = <<>>
    /\ candle_ticks = <<>>
    /\ candle_mins = <<>>
    /\ tick_minutes = <<>>

InitIdleInd ==
    /\ ind_series = <<>>
    /\ ind_deque = <<>>
    /\ ind_batch = NoIndicators
    /\ ind_live = NoIndicators @@ [runner_vwap |-> NaN]

InitIdleGen ==
    /\ gen_kind = "-"
    /\ gen_self = [max_trades_per_day |-> 0]
    /\ gen_df = <<>>
    /\ gen_calls = 0
    /\ gen_before = [max_trades_per_day |-> 0]
    /\ gen_first = NoTrades
    /\ gen_trades = NoTrades

InitIdleCol ==
    /\ col_df = <<>>
    /\ col_cols = <<>>
    /\ col_prev = <<>>

InitIdleOrb ==
    /\ orb_len = 0
    /\ orb_today = <<>>
    /\ orb_state = NoOrbState
    /\ orb_signal = "-"

InitIdleFilter ==
    /\ flt_file = "missing"
    /\ flt_bundle = "None"
    /\ flt_calls = 0
    /\ flt_version = "-"
    /\ flt_trade = [rr |-> 150, features |-> CompleteFeatures]
    /\ flt_row = <<>>
    /\ flt_prob = NoProb
    /\ flt_out = NoCall

InitIdleEngine ==
    /\ le_today = 1
    /\ le_daily = [date |-> None, count |-> 0, trades |-> <<>>]
    /\ le_alerts = <<>>
    /\ le_fresh = FALSE
    /\ le_tested = None
    /\ le_ret = "-"
    /\ le_send = NoSend
    /\ le_loop = "running"

InitIdleExit ==
    /\ ex_active = <<>>
    /\ ex_before = <<>>
    /\ ex_last = [close |-> 0, atr |-> None]
    /\ ex_open = 0

InitIdleFp ==
    /\ fp_candles = <<>>
    /\ fp_flags = NoFlags
    /\ fp_ret = "-"
    /\ fp_below = 0

InitIdleRun ==
    /\ rn_sent = 0
    /\ rn_buffer = <<>>
    /\ rn_minute = None
    /\ rn_1m = <<>>
    /\ rn_5m = <<>>

InitIdleBt ==
    /\ bt_pc = "idle"
    /\ bt_all = <<>>
    /\ bt_pos = 1
    /\ bt_daily = <<>>
    /\ bt_results = <<>>

InitIdleCb ==
    /\ cb_ticks = <<>>
    /\ cb_candles = <<>>
    /\ cb_built = [kind |-> "-", len |-> 0, stream |-> <<>>, runner |-> <<>>]

Init == InitEval /\ InitIdleLive /\ InitIdleInd /\ InitIdleGen /\ InitIdleCol /\ InitIdleOrb /\ InitIdleFilter /\ InitIdleEngine /\ InitIdleExit /\ InitIdleFp /\ InitIdleRun /\ InitIdleBt /\ InitIdleCb

Next == NextEval

Spec == Init /\ [][Next]_vars

\* the live loops; no trade is being evaluated
InitIdleEval ==
    /\ df = <<>>
    /\ trade = [type |-> "BUY", entry |-> 0, stoploss |-> 0, target |-> 0, rr |-> 0, time |-> 0]
    /\ max_candles = 0
    /\ pc = "idle"
    /\ idx = 0
    /\ i = 0
    /\ examined = <<>>
    /\ result = "-"
    /\ pnl_r = 0
    /\ others = NoOthers

LiveInit == InitIdleEval /\ InitLive /\ InitIdleInd /\ InitIdleGen /\ InitIdleCol /\ InitIdleOrb /\ InitIdleFilter /\ InitIdleEngine /\ InitIdleExit /\ InitIdleFp /\ InitIdleRun /\ InitIdleBt /\ InitIdleCb

LiveNext == NextLive

LiveSpec == LiveInit /\ [][LiveNext]_vars

\* the indicator pipeline fed bar by bar
IndInit == InitIdleEval /\ InitIdleLive /\ InitInd /\ InitIdleGen /\ InitIdleCol /\ InitIdleOrb /\ InitIdleFilter /\ InitIdleEngine /\ InitIdleExit /\ InitIdleFp /\ InitIdleRun /\ InitIdleBt /\ InitIdleCb

IndNext == NextInd

IndSpec == IndInit /\ [][IndNext]_vars

\* a signal generator instance called repeatedly on one series
GenInit == InitIdleEval /\ InitIdleLive /\ InitIdleInd /\ InitGen /\ InitIdleCol /\ InitIdleOrb /\ InitIdleFilter /\ InitIdleEngine /\ InitIdleExit /\ InitIdleFp /\ InitIdleRun /\ InitIdleBt /\ InitIdleCb

GenNext == NextGen

GenSpec == GenInit /\ [][GenNext]_vars

\* the batch pipeline re-run as the series grows
ColInit == InitIdleEval /\ InitIdleLive /\ InitIdleInd /\ InitIdleGen /\ InitCol /\ InitIdleOrb /\ InitIdleFilter /\ InitIdleEngine /\ InitIdleExit /\ InitIdleFp /\ InitIdleRun /\ InitIdleBt /\ InitIdleCb

ColNext == NextCol

ColSpec == ColInit /\ [][ColNext]_vars

\* one live session of 5-minute candles
OrbInit == InitIdleEval /\ InitIdleLive /\ InitIdleInd /\ InitIdleGen /\ InitIdleCol /\ InitOrbLive /\ InitIdleFilter /\ InitIdleEngine /\ InitIdleExit /\ InitIdleFp /\ InitIdleRun /\ InitIdleBt /\ InitIdleCb

OrbNext == NextOrb

OrbSpec == OrbInit /\ [][OrbNext]_vars

\* the decision filters called on one trade after another
FilterInit ==
    /\ InitIdleEval /\ InitIdleLive /\ InitIdleInd /\ InitIdleGen /\ InitIdleCol /\ InitIdleOrb /\ InitIdleEngine /\ InitIdleExit /\ InitIdleFp /\ InitIdleRun /\ InitIdleBt /\ InitIdleCb
    /\ InitFilter

FilterNext == NextFilter

FilterSpec == FilterInit /\ [][FilterNext]_vars

\* the live trade handler called signal after signal over two dates
EngineInit ==
    /\ InitIdleEval /\ InitIdleLive /\ InitIdleInd /\ InitIdleGen /\ InitIdleCol /\ InitIdleOrb /\ InitIdleExit /\ InitIdleFp /\ InitIdleRun /\ InitIdleBt /\ InitIdleCb
    /\ InitIdleFilter /\ InitEngine /\ InitIdleExit /\ InitIdleFp /\ InitIdleRun /\ InitIdleBt /\ InitIdleCb

EngineNext == NextEngine

EngineSpec == EngineInit /\ [][EngineNext]_vars

\* the exit manager called candle after candle
ExitInit ==
    /\ InitIdleEval /\ InitIdleLive /\ InitIdleInd /\ InitIdleGen /\ InitIdleCol /\ InitIdleOrb /\ InitIdleFp /\ InitIdleRun /\ InitIdleBt /\ InitIdleCb
    /\ InitIdleFilter /\ InitIdleEngine /\ InitExit /\ InitIdleFp /\ InitIdleRun /\ InitIdleBt /\ InitIdleCb

ExitNext == NextExit

ExitSpec == ExitInit /\ [][ExitNext]_vars

\* first_pullback_strategy called 5-minute candle after candle
PullbackInit ==
    /\ InitIdleEval /\ InitIdleLive /\ InitIdleInd /\ InitIdleGen /\ InitIdleCol /\ InitIdleOrb /\ InitIdleRun /\ InitIdleBt /\ InitIdleCb
    /\ InitIdleFilter /\ InitIdleEngine /\ InitIdleExit /\ InitPullbackLive /\ InitIdleRun /\ InitIdleBt /\ InitIdleCb

PullbackNext == NextPullbackLive

PullbackSpec == PullbackInit /\ [][PullbackNext]_vars

\* candle_engine alone, a tick or a pass at a time
RunnerInit ==
    /\ InitIdleEval /\ InitIdleLive /\ InitIdleInd /\ InitIdleGen /\ InitIdleCol /\ InitIdleOrb /\ InitIdleBt /\ InitIdleCb
    /\ InitIdleFilter /\ InitIdleEngine /\ InitIdleExit /\ InitIdleFp /\ InitRunner /\ InitIdleBt /\ InitIdleCb

RunnerNext == NextRunner

RunnerSpec == RunnerInit /\ [][RunnerNext]_vars

\* the run loop of backtest_v2 on the signals of two strategies
BacktestInit ==
    /\ InitIdleEval /\ InitIdleLive /\ InitIdleInd /\ InitIdleGen /\ InitIdleCol /\ InitIdleOrb /\ InitIdleCb
    /\ InitIdleFilter /\ InitIdleEngine /\ InitIdleExit /\ InitIdleFp /\ InitIdleRun /\ InitIdleCb
    /\ InitBacktest

BacktestNext == NextBacktest

BacktestSpec == BacktestInit /\ [][BacktestNext]_vars

\* the live candle builders on every tick list and candle list
BuilderInit ==
    /\ InitIdleEval /\ InitIdleLive /\ InitIdleInd /\ InitIdleGen /\ InitIdleCol /\ InitIdleOrb
    /\ InitIdleFilter /\ InitIdleEngine /\ InitIdleExit /\ InitIdleFp /\ InitIdleRun
    /\ InitIdleBt /\ InitBuilders

BuilderNext == NextBuilders

BuilderSpec == BuilderInit /\ [][BuilderNext]_vars

\* ========================================================================
\* Properties of the trade evaluators
\* ========================================================================
\* the levels as the contract states them
TouchesStop(c, t) ==
    (t.type = "BUY" /\ c.low <= t.stoploss) \/ (t.type = "SELL" /\ c.high >= t.stoploss)

TouchesTarget(c, t) ==
    (t.type = "BUY" /\ c.high >= t.target) \/ (t.type = "SELL" /\ c.low <= t.target)

TouchesBoth(c, t) == TouchesStop(c, t) /\ TouchesTarget(c, t)

TouchSet(d, t, ix) == { k \in (ix + 1)..Len(d) : TouchesStop(d[k], t) \/ TouchesTarget(d[k], t) }

FirstTouch(d, t, ix) == CHOOSE k \in TouchSet(d, t, ix) : \A m \in TouchSet(d, t, ix) : k <= m

Found == idx # 0

Finished == pc \in {"done", "end"}

ExaminedSet == { examined[k] : k \in 1..Len(examined) }

LastExamined == examined[Len(examined)]

SeqFromTo(a, b) == [k \in 1..(IF b >= a THEN b - a + 1 ELSE 0) |-> a + k - 1]

\* C1 as stated: in every evaluator a bar the scan reaches that touches both
\* the stop and the target is scored LOSS, never WIN.
C1_Original ==
    (pc = "end" /\ Found) =>
        /\ \A k \in ExaminedSet : TouchesBoth(df[k], trade) =>
               (result = "LOSS" /\ others.label_v2 = 0)
        /\ (TouchSet(df, trade, idx) # {} /\ TouchesBoth(df[FirstTouch(df, trade, idx)], trade)) =>
               (others.engine = "LOSS" /\ others.tuning = "LOSS" /\ others.label_v1 = 0)

\* C1 amended: a bar of the signal bar's session that the scan reaches and
\* that touches both levels is scored LOSS (label 0), never WIN; the
\* evaluators without an end-of-day exit do so for every bar they reach.
C1_StopBeforeTarget ==
    (pc = "end" /\ Found) =>
        /\ \A k \in ExaminedSet :
               (TouchesBoth(df[k], trade) /\ df[k].date = df[idx].date) =>
                   (result = "LOSS" /\ pnl_r = -100 /\ others.label_v2 = 0)
        /\ (TouchSet(df, trade, idx) # {} /\ TouchesBoth(df[FirstTouch(df, trade, idx)], trade)) =>
               (others.engine = "LOSS" /\ others.tuning = "LOSS" /\ others.label_v1 = 0)

C1_Witness ==
    /\ pc = "end" /\ Found /\ examined # <<>>
    /\ TouchesBoth(df[LastExamined], trade)
    /\ df[LastExamined].date = df[idx].date
    /\ trade.type = "SELL"
    /\ result = "LOSS" /\ others.engine = "LOSS"

\* the outcome the earliest touching bar k prescribes
OutcomeOfBar(k) ==
    IF TouchesStop(df[k], trade)
    THEN [result |-> "LOSS", pnl_r |-> -100]
    ELSE [result |-> "WIN", pnl_r |-> 100 * trade.rr]

\* C2 as stated: the outcome is decided by the earliest bar after the signal
\* bar that touches either level (LOSS, pnl -1, if it touches the stop; WIN,
\* pnl rr, otherwise).
C2_Original ==
    (Finished /\ Found /\ TouchSet(df, trade, idx) # {}) =>
        [result |-> result, pnl_r |-> pnl_r] = OutcomeOfBar(FirstTouch(df, trade, idx))

\* C2 amended: the outcome is decided by the earliest bar after the signal
\* bar that touches either level whenever the scan reaches that bar and the
\* bar belongs to the signal bar's session.
C2_FirstTouchDecides ==
    (Finished /\ Found /\ TouchSet(df, trade, idx) # {}) =>
        LET k == FirstTouch(df, trade, idx)
        IN  (k \in ExaminedSet /\ df[k].date = df[idx].date) =>
                /\ [result |-> result, pnl_r |-> pnl_r] = OutcomeOfBar(k)
                /\ LastExamined = k

C2_Witness ==
    /\ Finished /\ Found /\ Len(examined) >= 2
    /\ TouchSet(df, trade, idx) # {}
    /\ FirstTouch(df, trade, idx) = LastExamined
    /\ LastExamined < Len(df)
    /\ result = "WIN"

\* C3 as stated: when the first stop/target touch lies k bars after the
\* signal bar, 1 <= k <= max_candles, the capped evaluation equals the
\* unbounded one.
C3_CapEquivalence ==
    (pc = "end" /\ Found /\ TouchSet(df, trade, idx) # {}
       /\ FirstTouch(df, trade, idx) - idx <= max_candles) =>
        [result |-> result, pnl_r |-> pnl_r] = others.unbounded

\* C4 as stated: the scan reads bars idx+1 .. min(idx + N, last bar) in
\* increasing order, all of them when nothing ends it early, and never the
\* signal bar.
C4_ScannedRange ==
    (Finished /\ Found) =>
        /\ idx \notin ExaminedSet
        /\ \A k \in 1..Len(examined) : examined[k] = idx + k
        /\ result = "TIMEOUT" =>
               examined = SeqFromTo(idx + 1, Min(idx + max_candles, Len(df)))

\* the unrounded end-of-day pnl as numerator and denominator
EodNum(k) ==
    IF trade.type = "BUY" THEN df[k - 1].close - trade.entry ELSE trade.entry - df[k - 1].close

EodDen == IF trade.type = "BUY" THEN trade.entry - trade.stoploss ELSE trade.stoploss - trade.entry

DateChanges(d, ix) == { k \in (ix + 1)..Len(d) : d[k].date # d[ix].date }

\* C5 as stated: on reaching the first bar of another date the trade closes
\* at the previous close, outcome EOD, pnl exactly (exit - entry)/(entry - stop)
\* (mirrored for SELL), and the scan ends.
C5_Original ==
    (Finished /\ Found /\ examined # <<>> /\ df[LastExamined].date # df[idx].date) =>
        /\ result = "EOD"
        /\ pnl_r * EodDen = 100 * EodNum(LastExamined)

\* C5 amended: as C5, with pnl the quotient rounded to two decimals.
C5_EodExit ==
    (Finished /\ Found) =>
        /\ (examined # <<>> /\ df[LastExamined].date # df[idx].date) =>
              /\ result = "EOD"
              /\ \A m \in DateChanges(df, idx) : LastExamined <= m
              /\ 2 * Abs(pnl_r * EodDen - 100 * EodNum(LastExamined)) <= EodDen
        /\ \A k \in 1..(Len(examined) - 1) : df[examined[k]].date = df[idx].date
        /\ result = "EOD" => (examined # <<>> /\ df[LastExamined].date # df[idx].date)

C5_Witness ==
    /\ Finished /\ result = "EOD"
    /\ Len(examined) >= 2 /\ LastExamined < Len(df)
    /\ pnl_r = -67

\* C6: TIMEOUT with pnl 0 exactly when the signal bar is found and no bar
\* the scan read touched the stop or the target or lay in another session.
C6_TimeoutExactly ==
    Finished =>
        /\ (result = "TIMEOUT") <=>
              (Found /\ \A k \in ExaminedSet :
                   /\ ~TouchesStop(df[k], trade)
                   /\ ~TouchesTarget(df[k], trade)
                   /\ df[k].date = df[idx].date)
        /\ result = "TIMEOUT" => pnl_r = 0

C6_Witness ==
    /\ Finished /\ result = "TIMEOUT" /\ pnl_r = 0
    /\ Len(examined) >= 2 /\ LastExamined = Len(df)

\* C7: pnl is rr for WIN, -1 for LOSS and 0 for TIMEOUT; only EOD carries
\* another value.
C7_PnlByOutcome ==
    Finished =>
        /\ result = "WIN" => pnl_r = 100 * trade.rr
        /\ result = "LOSS" => pnl_r = -100
        /\ result = "TIMEOUT" => pnl_r = 0
        /\ pnl_r \notin {100 * trade.rr, -100, 0} => result = "EOD"

C7_Witness == Finished /\ result = "WIN" /\ trade.rr = 2 /\ pnl_r = 200

\* C8 as stated: a signal timestamp that matches no bar gives TIMEOUT with
\* pnl 0 in every evaluator variant, never LOSS nor label 0.
C8_NotFoundIsTimeout ==
    (pc = "end" /\ IdxList(df, trade) = {}) =>
        /\ result = "TIMEOUT" /\ pnl_r = 0 /\ examined = <<>>
        /\ others.tuning = "TIMEOUT"
        /\ others.engine = "TIMEOUT"
        /\ others.label_v2 # 0
        /\ others.label_v1 # 0

\* ========================================================================
\* Properties of the live loops
\* ========================================================================
RECURSIVE CountIn(_, _)
CountIn(id, q) ==
    IF q = <<>> THEN 0
    ELSE (IF \E k \in 1..Len(q[1]) : q[1][k] = id THEN 1 ELSE 0) + CountIn(id, Tail(q))

\* ticks whose on_ticks call has returned
Handed == { id \in 1..delivered : \A k \in 1..Len(p_ticks) : p_ticks[k].id # id }

Buffered(id) == \E k \in 1..Len(ticks_buffer) : ticks_buffer[k].id = id

\* C9 as stated: under every interleaving of on_ticks and the candle loop a
\* delivered tick is never dropped by the buffer reset (it is still buffered
\* or is in a 1-minute candle) and is never counted in two candles.
C9_NoTickLostOrDuplicated ==
    \A id \in Handed :
        /\ CountIn(id, candle_ticks) <= 1
        /\ CountIn(id, candle_ticks) = 1 \/ Buffered(id)

\* ========================================================================
\* Properties of the indicator pipeline
\* ========================================================================
\* two RSI values 100 - 100/(1 + ag/(al + 1e-10)) with exactly represented
\* averages are equal iff the gains agree and (the gain is 0 or the losses
\* agree)
SameRsi(b, l) == b.ag = l.ag /\ (b.ag.num = 0 \/ b.al = l.al)

\* C10 as stated: after every append the live indicators equal the batch
\* values at the same index and are ready exactly where the batch values are
\* not NaN.
C10_IndicatorParity ==
    ind_series # <<>> =>
        /\ \A f \in {"atr", "ema_9", "ema_21", "vwap"} :
              /\ ind_live[f].ok <=> ind_batch[f].ok
              /\ ind_live[f].ok => ind_live[f] = ind_batch[f]
        /\ ind_live.rsi_14.ok <=> ind_batch.rsi_14.ok
        /\ ind_live.rsi_14.ok => SameRsi(ind_batch.rsi_14, ind_live.rsi_14)
        /\ ind_live.runner_vwap = ind_batch.vwap

\* ========================================================================
\* Properties of the signal generators
\* ========================================================================
\* C11 as stated: a generator keeps no state between calls. The second call
\* on the same instance with the same series returns the list the first call
\* returned, and a call leaves the instance's fields (trade_count among
\* them) as it found them.
C11_NoStateBetweenCalls ==
    /\ gen_calls >= 1 => gen_self = gen_before
    /\ gen_calls = 2 => gen_trades = gen_first

\* the trades a bar would emit were no cap in force
Qualifies(k) ==
    CASE gen_kind = "VWAP_PULLBACK" -> k >= 2 /\ PullbackBar(gen_df, k, gen_self.rr_list) # <<>>
      [] gen_kind = "EMA_SCALP"     -> k >= 3 /\ EmaScalpBar(gen_self, gen_df, k) # <<>>
      [] gen_kind = "VWAP_REVERSION" -> k >= 3 /\ ReversionBar(gen_self, gen_df, k) # <<>>
      [] OTHER -> FALSE

QualifyingBars(date) == { k \in SessionRows(gen_df, date) : Qualifies(k) }

\* the first n bars of a set of bars
Earliest(S, n) == { k \in S : Cardinality({ m \in S : m < k }) < n }

\* bars of a date the first call emitted a trade at
EmittedBars(date) ==
    { k \in SessionRows(gen_df, date) : \E n \in 1..Len(gen_first) : gen_first[n].time = k }

TradesOn(date) == { n \in 1..Len(gen_first) : gen_df[gen_first[n].time].date = date }

\* ORB: the first row of the session after its opening rows that breaks out
\* on the given side inside the trading window
OrbQualifies(k, type) ==
    LET date == gen_df[k].date
        rows == RowsOf(gen_df, date)
    IN  /\ Len(rows) >= 5
        /\ gen_df[rows[1]].orb_high - gen_df[rows[1]].orb_low >= 30
        /\ gen_df[rows[1]].orb_high - gen_df[rows[1]].orb_low <= 300
        /\ k \notin HeadRows(gen_df, date, 3)
        /\ \E t \in {OrbRow(gen_self, gen_df[k], gen_df[rows[1]].orb_high,
                            gen_df[rows[1]].orb_low, 0, 0)} :
              \E n \in 1..Len(t) : t[n].type = type

OrbEmitted(date, type) ==
    { gen_first[n].time : n \in { m \in TradesOn(date) : gen_first[m].type = type } }

\* C12 as stated: per session date a scan-based generator emits at most
\* max_trades_per_day trades (ORB: one BUY and one SELL), at the earliest
\* qualifying bars of the date, and a date that reached its cap does not
\* keep later dates from emitting.
C12_PerDayCap ==
    (gen_calls >= 1 /\ gen_kind \in {"VWAP_PULLBACK", "EMA_SCALP", "VWAP_REVERSION", "ORB"}) =>
        \A date \in Dates(gen_df) :
            IF gen_kind = "ORB"
            THEN \A type \in {"BUY", "SELL"} :
                    /\ Cardinality({ n \in TradesOn(date) : gen_first[n].type = type }) <= 1
                    /\ OrbEmitted(date, type) =
                          Earliest({ k \in SessionRows(gen_df, date) : OrbQualifies(k, type) }, 1)
            ELSE /\ Cardinality(TradesOn(date)) <= gen_before.max_trades_per_day
                 /\ EmittedBars(date) =
                       Earliest(QualifyingBars(date), gen_before.max_trades_per_day)

\* the target of a trade in hundredths: the one it carries, or the one the
\* evaluators derive from entry, stop and rr (rr in hundredths)
TargetOf(t) ==
    IF ~ IsNa(t.target) THEN [num |-> t.target, den |-> 1]
    ELSE IF t.type = "BUY"
    THEN [num |-> 100 * t.entry + (t.entry - t.stoploss) * t.rr, den |-> 100]
    ELSE [num |-> 100 * t.entry - (t.stoploss - t.entry) * t.rr, den |-> 100]

\* C13 as stated: every emitted trade has stop < entry < target (BUY) or
\* target < entry < stop (SELL) on the values emitted.
C13_LevelsOrdered ==
    \A n \in 1..Len(gen_trades) :
        LET t == gen_trades[n]
            target == TargetOf(t)
        IN  IF t.type = "BUY"
            THEN t.stoploss < t.entry /\ t.entry * target.den < target.num
            ELSE target.num < t.entry * target.den /\ t.entry < t.stoploss

\* ========================================================================
\* Properties of the batch columns
\* ========================================================================
\* the session before the one row k belongs to, 0 if there is none
PrevSession(k) ==
    LET before == { col_df[m].date : m \in { x \in 1..Len(col_df) : col_df[x].date < col_df[k].date } }
    IN  IF before = {} THEN 0 ELSE SetMax(before)

BarsOf(date) == { m \in 1..Len(col_df) : col_df[m].date = date }

\* high, low and last close of a session
SessionHigh(date) == SetMax({ col_df[m].high : m \in BarsOf(date) })

SessionLow(date) == SetMin({ col_df[m].low : m \in BarsOf(date) })

SessionClose(date) == col_df[SetMax(BarsOf(date))].close

\* C14: the pivot, R1, R2, S1 and S2 of every bar of session D are those of
\* the high, low and last close of the session immediately before D, and the
\* bars of the first session carry none.
C14_PivotsFromPreviousSession ==
    \A k \in 1..Len(col_df) :
        LET p  == PrevSession(k)
            pv == col_cols[k].pivots
        IN  IF p = 0
            THEN \A f \in {"pivot", "r1", "r2", "s1", "s2"} : IsNa(pv[f])
            ELSE LET h == SessionHigh(p)
                     l == SessionLow(p)
                     c == SessionClose(p)
                 IN  /\ pv.pivot = h + l + c
                     /\ pv.r1 = 2 * (h + l + c) - 3 * l
                     /\ pv.r2 = (h + l + c) + 3 * (h - l)
                     /\ pv.s1 = 2 * (h + l + c) - 3 * h
                     /\ pv.s2 = (h + l + c) - 3 * (h - l)

\* a bar of a later session whose own session would give other pivots
C14_Witness ==
    \E k \in 1..Len(col_df) :
        /\ PrevSession(k) # 0
        /\ ~ IsNa(col_cols[k].pivots.pivot)
        /\ col_cols[k].pivots.pivot #
              SessionHigh(col_df[k].date) + SessionLow(col_df[k].date) + SessionClose(col_df[k].date)

\* C15 as stated: no column value attached to bar i depends on a bar after
\* i: a bar added to the series leaves the columns of the earlier bars as
\* they were.
C15_NoLookahead ==
    \A k \in 1..Len(col_prev) : col_cols[k] = col_prev[k]

\* C16: the VWAP of a bar is the mean typical price of the bars of its own
\* session up to it, so the VWAP of the first bar of a session is that bar's
\* typical price.
C16_VwapPerSession ==
    \A k \in 1..Len(col_df) :
        LET own == { m \in BarsOf(col_df[k].date) : m <= k }
            sum == SeqSum([m \in 1..k |-> IF m \in own
                              THEN col_df[m].high + col_df[m].low + col_df[m].close ELSE 0])
            v   == col_cols[k].vwap
        IN  /\ v.ok
            /\ v.num * 3 * Cardinality(own) = sum * v.den
            /\ own = {k} => 3 * v.num = (col_df[k].high + col_df[k].low + col_df[k].close) * v.den

\* the first bar of a later session, its typical price unlike the bars before
C16_Witness ==
    \E k \in 2..Len(col_df) :
        /\ col_df[k].date # col_df[k - 1].date
        /\ col_df[k].high + col_df[k].low + col_df[k].close #
              col_df[k - 1].high + col_df[k - 1].low + col_df[k - 1].close
        /\ 3 * col_cols[k].vwap.num =
              (col_df[k].high + col_df[k].low + col_df[k].close) * col_cols[k].vwap.den

\* ========================================================================
\* Properties of the live ORB check
\* ========================================================================
\* C17 as stated: once the live opening range is complete it is the
\* high/low of the first 3 five-minute bars of the session, which is what
\* the batch pipeline attaches to the session, whenever the warm-up and
\* trading-window gates first let a candle through.
C17_LiveOrbIsBatchOrb ==
    (orb_state.date = 1 /\ orb_state.candle_count >= 3) =>
        /\ orb_state.high = BatchOrbHigh(orb_today, 1)
        /\ orb_state.low = BatchOrbLow(orb_today, 1)

\* ========================================================================
\* Properties of the feature vectors
\* ========================================================================
\* C18 as stated: no generator emits a trade at a bar where an indicator
\* feeding its feature vector is not ready: every value of an emitted
\* trade's feature vector is defined.
C18_FeaturesDefined ==
    \A n \in 1..Len(gen_trades) :
        \A f \in DOMAIN gen_trades[n].features : ~ IsNa(gen_trades[n].features[f])

\* ========================================================================
\* Properties of the decision filters
\* ========================================================================
\* the threshold the contract names for a trade: the one configured for
\* its strategy name in the filter's own table, else 0.5
ConfiguredThreshold(version, t) ==
    LET table == IF version = "v2" THEN STRATEGY_THRESHOLDS
                 ELSE Config_STRATEGY_THRESHOLDS
    IN IF "strategy" \in DOMAIN t /\ t.strategy \in DOMAIN table
       THEN table[t.strategy] ELSE 5000

\* C19: whenever a filter obtained a probability, it returns TAKE exactly
\* when that probability is >= the threshold configured for the trade's
\* strategy name (0.5 for an unknown or absent name), and SKIP otherwise.
C19_TakeIffAtThreshold ==
    flt_prob # NoProb =>
        /\ ~ flt_out.raised
        /\ flt_out.threshold = ConfiguredThreshold(flt_version, flt_trade)
        /\ flt_out.decision \in {"TAKE", "SKIP"}
        /\ flt_out.decision = "TAKE" <=>
              flt_prob >= ConfiguredThreshold(flt_version, flt_trade)

\* a trade without a strategy name is accepted by ai_filter_v2 at a
\* probability of exactly 0.5
C19_Witness ==
    /\ flt_version = "v2"
    /\ "strategy" \notin DOMAIN flt_trade
    /\ flt_prob = 5000
    /\ flt_out.decision = "TAKE"

\* C20: with the bundle missing or unloadable, ai_filter_v2 returns TAKE
\* with confidence NO_MODEL and does not raise; NO_MODEL is returned in no
\* other situation.
C20_FailOpenNoModel ==
    flt_version = "v2" =>
        /\ flt_file # "ok" =>
              /\ ~ flt_out.raised
              /\ flt_out.decision = "TAKE"
              /\ flt_out.confidence = "NO_MODEL"
        /\ flt_out.confidence = "NO_MODEL" => flt_file # "ok"

\* C21: the band ai_filter_v2 returns with a decision taken on a probability
\* is HIGH iff probability >= threshold + 0.15, MEDIUM iff
\* threshold + 0.05 <= probability < threshold + 0.15, LOW otherwise; a SKIP
\* carries LOW and a HIGH or MEDIUM decision is a TAKE.
C21_ConfidenceBands ==
    (flt_version = "v2" /\ flt_prob # NoProb) =>
        LET threshold == ConfiguredThreshold("v2", flt_trade)
            band == flt_out.confidence
        IN /\ band \in {"HIGH", "MEDIUM", "LOW"}
           /\ band = "HIGH" <=> flt_prob >= threshold + 1500
           /\ band = "MEDIUM" <=>
                 (threshold + 500 <= flt_prob /\ flt_prob < threshold + 1500)
           /\ flt_out.decision = "SKIP" => band = "LOW"
           /\ band \in {"HIGH", "MEDIUM"} => flt_out.decision = "TAKE"

\* a probability exactly on the upper edge is HIGH
C21_Witness ==
    /\ flt_version = "v2"
    /\ flt_prob # NoProb
    /\ flt_prob = flt_out.threshold + 1500
    /\ flt_out.confidence = "HIGH"
    /\ flt_out.decision = "TAKE"

\* C22: ai_filter_v2 does not fail on an incomplete feature vector; the
\* row the oracle receives holds exactly the schema's features in schema
\* order, with 0 wherever the trade's value is missing, None or NaN, and
\* keys outside the schema are ignored.
C22_FeatureFill ==
    (flt_version = "v2" /\ flt_file = "ok") =>
        /\ ~ flt_out.raised
        /\ flt_prob # NoProb
        /\ Len(flt_row) = Len(FEATURES)
        /\ \A k \in 1..Len(FEATURES) :
              LET given == flt_trade.features
                  name == FEATURES[k]
                  usable == /\ name \in DOMAIN given
                            /\ given[name] # None
                            /\ given[name] # NaNv
              IN flt_row[k] = IF usable THEN given[name] ELSE 0

\* a trade whose feature dict holds a NaN got through with 0 in its place
C22_Witness ==
    /\ flt_version = "v2"
    /\ flt_prob # NoProb
    /\ "ema_9_dist" \in DOMAIN flt_trade.features
    /\ flt_trade.features.ema_9_dist = NaNv
    /\ flt_row = <<1, 55, 0>>

\* ========================================================================
\* Properties of the live trade handler
\* ========================================================================
\* C23: at most MAX_TRADES_PER_DAY alerts are sent for any calendar date,
\* daily_trades["count"] equals the number of entries of
\* daily_trades["trades"], and the first call on a new date tests the cap
\* against a count reset to 0.
C23_DailyCap ==
    /\ \A d \in EngineDates : le_alerts[d] <= MAX_TRADES_PER_DAY
    /\ le_daily.count = Len(le_daily.trades)
    /\ le_fresh => le_tested = 0

\* the first date was used up and refused a further signal, and the first
\* signal of the next date went out
C23_Witness ==
    /\ le_alerts[1] = MAX_TRADES_PER_DAY
    /\ le_today = 2
    /\ le_fresh
    /\ le_daily.count = 1
    /\ le_alerts[2] = 1

C25_StopOnlyTightens ==
    \A key \in DOMAIN ex_active \cap DOMAIN ex_before :
        IF ex_active[key].type = "BUY"
        THEN ex_active[key].stoploss >= ex_before[key].stoploss
        ELSE ex_active[key].stoploss <= ex_before[key].stoploss

\* ========================================================================
\* Properties of first_pullback_strategy
\* ========================================================================
\* C26 as stated: once a trade has been emitted, two consecutive 5-minute
\* candles closing below VWAP reset TRADE_TAKEN (with TREND_CONFIRMED and
\* PULLBACK_SEEN), so that a new trade can be emitted later.
C26_ResetAfterTwoBreaks ==
    fp_below >= 2 =>
        /\ ~ fp_flags.TRADE_TAKEN
        /\ ~ fp_flags.TREND_CONFIRMED
        /\ ~ fp_flags.PULLBACK_SEEN

\* ========================================================================
\* Properties of candle_engine's deques
\* ========================================================================
StrictlyIncreasing(q) == \A k \in 1..(Len(q) - 1) : q[k].time < q[k + 1].time

\* C27 as stated: each closed minute contributes at most one candle to
\* candles_1m and each 5-minute boundary at most one to candles_5m; the
\* timestamps in both deques are strictly increasing.
C27_OneCandlePerMinute ==
    /\ StrictlyIncreasing(rn_1m)
    /\ StrictlyIncreasing(rn_5m)

\* ========================================================================
\* Properties of the 5-minute aggregation
\* ========================================================================
\* the stamps of the five 1-minute candles of the clock-aligned window
\* that starts at minute w
AlignedWindow(w) == [k \in 1..5 |-> w + k - 1]

\* C28 as stated: every 5-minute candle candle_watcher hands on aggregates
\* exactly the five consecutive 1-minute candles of one clock-aligned
\* 5-minute window.
C28_FiveAlignedMinutes ==
    loop = "watcher" =>
        \A k \in 1..Len(candle_mins) :
            \E w \in 0..MaxMinute : w % 5 = 0 /\ candle_mins[k] = AlignedWindow(w)

\* C29 as stated: every tick folded into a 1-minute candle of the live
\* loops is stamped with the minute the candle is stamped with.
C29_TicksOfStampedMinute ==
    \A k \in 1..Len(candle_ticks) :
        \A j \in 1..Len(candle_ticks[k]) :
            tick_minutes[candle_ticks[k][j]] = candles_1min[k].time

\* ========================================================================
\* Properties of the end-of-day exit
\* ========================================================================
\* bars of the range range(idx + 1, end_idx) of a scan with cap n
ScanRange(d, t, n) == (FirstIdx(d, t) + 1)..(EndIdx(FirstIdx(d, t), n, d) - 1)

\* the first bar of the range that lies in another session than the signal
\* bar and that no touch of the stop or the target in the signal's session
\* precedes; 0 when the scan reaches no such bar
FirstForeignBar(d, t, n) ==
    LET ix == FirstIdx(d, t)
        foreign == { k \in ScanRange(d, t, n) :
                       /\ d[k].date # d[ix].date
                       /\ \A m \in ScanRange(d, t, n) :
                             m < k => /\ d[m].date = d[ix].date
                                      /\ ~TouchesStop(d[m], t)
                                      /\ ~TouchesTarget(d[m], t) }
    IN  IF foreign = {} THEN 0 ELSE CHOOSE k \in foreign : TRUE

\* the label of a position closed at the close of bar c
ClosedInProfit(c, t) ==
    IF t.type = "BUY" THEN (IF c.close > t.entry THEN 1 ELSE 0)
    ELSE (IF c.close < t.entry THEN 1 ELSE 0)

\* C30: in backtest_v2.evaluate_trade and build_training_data_v2.evaluate_trade
\* the session-change test precedes the stop/target test on every scanned
\* bar: no WIN or LOSS comes from a bar of another session than the signal
\* bar, also when that bar touches the stop or the target; such a bar ends
\* the scan with EOD, respectively with the label of the previous close.
C30_SessionTestFirst ==
    /\ (Finished /\ Found) =>
          /\ \A k \in ExaminedSet :
                df[k].date # df[idx].date => result = "EOD"
          /\ result \in {"WIN", "LOSS"} =>
                /\ examined # <<>>
                /\ df[LastExamined].date = df[idx].date
    /\ (pc = "end" /\ Found /\ FirstForeignBar(df, trade, max_candles) # 0) =>
          others.label_v2 =
              ClosedInProfit(df[FirstForeignBar(df, trade, max_candles) - 1], trade)

\* an EOD exit on a bar of the next session that touches the stop, the
\* position closed in profit at the previous close
C30_Witness ==
    /\ pc = "end" /\ Found /\ result = "EOD"
    /\ df[LastExamined].date # df[idx].date
    /\ TouchesStop(df[LastExamined], trade)
    /\ FirstForeignBar(df, trade, max_candles) = LastExamined
    /\ others.label_v2 = 1

\* C31: for the same series, trade and max_candles the training label is 1
\* exactly when backtest_v2.evaluate_trade returns WIN, or EOD with the exit
\* close strictly on the profitable side of entry, and 0 for LOSS, TIMEOUT,
\* SKIP and any other EOD; the two scans cover the same bars.
C31_LabelAgreesWithBacktest ==
    pc = "end" =>
        others.label_v2 =
            IF result = "WIN" THEN 1
            ELSE IF result = "EOD"
                 THEN ClosedInProfit(PrevBar(df, LastExamined), trade)
                 ELSE 0

\* an EOD exit at a close equal to entry, after at least one bar of the
\* signal's session was scanned: pnl 0 and label 0
C31_Witness ==
    /\ pc = "end" /\ result = "EOD" /\ pnl_r = 0
    /\ Len(examined) >= 2
    /\ PrevBar(df, LastExamined).close = trade.entry
    /\ others.label_v2 = 0

\* ========================================================================
\* Properties of the direction of the move in update_live_exits
\* ========================================================================
\* how far the last close lies on the profitable side of entry
Favour(t, last_price) ==
    IF t.type = "BUY" THEN last_price - t.entry ELSE t.entry - last_price

\* C32 as stated: update_live_exits changes a stop only after the last price
\* has moved more than one ATR in the trade's favour, trails it only after
\* more than two ATR in its favour, and a move against the trade neither
\* changes the stop nor exits a trade whose own stop the price has not
\* reached.
C32_OnlyFavourableMoves ==
    ex_last.atr # None =>
        \A key \in DOMAIN ex_before :
            LET t == ex_before[key]
                fav == Favour(t, ex_last.close)
            IN /\ (key \in DOMAIN ex_active /\ ex_active[key].stoploss # t.stoploss) =>
                     /\ fav > ex_last.atr
                     /\ ex_active[key].stoploss # t.entry => fav > 2 * ex_last.atr
               /\ fav < 0 =>
                     IF key \in DOMAIN ex_active
                     THEN ex_active[key].stoploss = t.stoploss
                     ELSE ExitHit(t, t.stoploss, ex_last.close)

\* ========================================================================
\* Properties of the order of the first-pullback flags
\* ========================================================================
\* C33: first_pullback_strategy emits a trade only with the trend confirmed
\* and the pullback seen on an earlier candle, and once a trade is emitted
\* none follows on a later candle while TRADE_TAKEN has not been reset.
C33_TrendPullbackEntry ==
    /\ [](fp_flags.PULLBACK_SEEN => fp_flags.TREND_CONFIRMED)
    /\ [](fp_flags.TRADE_TAKEN => fp_flags.PULLBACK_SEEN)
    /\ [][fp_ret' = "trade" =>
            /\ fp_flags.TREND_CONFIRMED
            /\ fp_flags.PULLBACK_SEEN
            /\ ~ fp_flags.TRADE_TAKEN
            /\ fp_flags'.TRADE_TAKEN]_vars

\* a trade has been emitted and a later candle has closed without one
C33_Witness ==
    /\ fp_flags.TRADE_TAKEN /\ fp_flags.PULLBACK_SEEN /\ fp_flags.TREND_CONFIRMED
    /\ fp_ret = "None"

\* ========================================================================
\* Properties of alert delivery
\* ========================================================================
\* C34: a delivery that fails (credentials missing, a response other than
\* 200, a timeout or a network exception) is not retried and raises
\* nothing: process_trade_v2 returns the trade and the loop of
\* on_new_5min_candle keeps running.
C34_FailedDeliveryDropped ==
    (le_send # NoSend /\ ~ le_send.ok) =>
        /\ le_send.posts <= 1
        /\ ~ le_send.raised
        /\ le_ret = "trade"
        /\ le_loop = "running"

\* requests.post timed out on the second alert of the date
C34_Witness ==
    /\ le_send.outcome = "Timeout" /\ le_send.posts = 1
    /\ le_ret = "trade" /\ le_loop = "running"
    /\ le_daily.count = 2

\* ========================================================================
\* Properties of the registry of active trades
\* ========================================================================
\* C35 as stated: every trade passed to register_trade stays in
\* active_trades until its own exit condition fires; registering another
\* trade neither replaces nor removes it, so active_trades holds as many
\* trades as were registered and have not exited.
C35_RegisteredStaysActive ==
    Cardinality(DOMAIN ex_active) = ex_open

\* ========================================================================
\* Properties of the backtest run loop
\* ========================================================================
BtDates == {DateOf(tm) : tm \in BtTimes}

RecordedSet == {bt_results[k] : k \in 1..Len(bt_results)}

RecordedOn(date) == {r \in RecordedSet : DateOf(bt_all[r].time) = date}

\* C36: the run loop takes the trades in non-decreasing signal time, records
\* at most 5 per calendar date, counts against the allowance exactly the
\* trades the filter takes, and the trades recorded for a date are the
\* earliest of the date the filter takes.
C36_EarliestAcceptedFive ==
    bt_pc \in {"loop", "done"} =>
        /\ \A k \in 1..(Len(bt_all) - 1) : bt_all[k].time <= bt_all[k + 1].time
        /\ \A k \in 1..(Len(bt_results) - 1) : bt_results[k] < bt_results[k + 1]
        /\ \A date \in BtDates :
              /\ Cardinality(RecordedOn(date)) <= 5
              /\ date \in DOMAIN bt_daily => bt_daily[date] = Cardinality(RecordedOn(date))
              /\ date \notin DOMAIN bt_daily => RecordedOn(date) = {}
        /\ \A r \in RecordedSet : BtDecision(bt_all[r]) = "TAKE"
        /\ \A u \in 1..(bt_pos - 1) :
              (u \notin RecordedSet /\ BtDecision(bt_all[u]) = "TAKE") =>
                  /\ Cardinality(RecordedOn(DateOf(bt_all[u].time))) = 5
                  /\ \A r \in RecordedOn(DateOf(bt_all[u].time)) :
                        r < u /\ bt_all[r].time <= bt_all[u].time

\* the first date had six signals the filter takes: five are recorded and
\* the latest is not
C36_Witness ==
    /\ bt_pc = "done"
    /\ Cardinality(RecordedOn(1)) = 5
    /\ \E u \in 1..Len(bt_all) :
          /\ u \notin RecordedSet
          /\ BtDecision(bt_all[u]) = "TAKE"
          /\ bt_all[u].time = 12
    /\ \E r \in RecordedSet : bt_all[r].time = 11

\* ========================================================================
\* Properties of the ATR warm-up
\* ========================================================================
\* C37 as stated: ATR(14) is undefined at each of the first 14 bars of a
\* series and defined from the 15th bar on, in the batch pipeline (NaN) and
\* in the live calc_atr (None) alike.
C37_AtrReadyAtFifteen ==
    ind_series # <<>> =>
        /\ ind_batch.atr.ok <=> Len(ind_series) >= AtrPeriod + 1
        /\ ind_live.atr.ok <=> Len(ind_series) >= AtrPeriod + 1

\* ========================================================================
\* Properties of the end-of-day pnl
\* ========================================================================
\* |target - entry|, the numerator of the pnl of a close at the target
TargetDist == Abs(trade.target - trade.entry)

\* C38: an EOD result whose exit bar (the bar before the first bar of the
\* next session) was itself scanned has unrounded pnl strictly above -1 and
\* strictly below (target - entry)/|entry - stop|.
C38_EodPnlBounded ==
    (Finished /\ result = "EOD" /\ LastExamined - 1 > idx) =>
        /\ EodNum(LastExamined) > 0 - EodDen
        /\ EodNum(LastExamined) < TargetDist

\* an EOD exit at the close of a scanned bar, for the trade whose stop and
\* target lie one point from entry
C38_Witness ==
    /\ Finished /\ result = "EOD" /\ LastExamined - 1 > idx
    /\ EodDen = 1 /\ TargetDist = 1
    /\ pnl_r = 0

\* the bound without the condition that the exit bar was scanned
C38_BoundAlsoAtSignalBar ==
    (Finished /\ result = "EOD") =>
        /\ EodNum(LastExamined) > 0 - EodDen
        /\ EodNum(LastExamined) < TargetDist

\* ========================================================================
\* Properties of the live candle builders
\* ========================================================================
WellFormed(c) == c.low <= Min(c.open, c.close) /\ Max(c.open, c.close) <= c.high

\* C39: every candle build_1min_candle, build_1m_candle, aggregate_5min and
\* build_5m produce from a non-empty list has low <= min(open, close) and
\* max(open, close) <= high, and an empty tick list yields no candle.
C39_CandlesWellFormed ==
    /\ \A k \in 1..Len(cb_built.stream) : WellFormed(cb_built.stream[k])
    /\ \A k \in 1..Len(cb_built.runner) : WellFormed(cb_built.runner[k])
    /\ \A k \in 1..Len(cb_candles) : WellFormed(cb_candles[k])
    /\ cb_built.kind = "1m" =>
          /\ cb_built.len = 0 <=> cb_built.stream = <<>>
          /\ cb_built.len = 0 <=> cb_built.runner = <<>>

\* a 5-minute candle of two 1-minute candles whose close lies strictly
\* inside its range and whose open is its low
C39_Witness ==
    /\ cb_built.kind = "5m" /\ cb_built.len = 2
    /\ cb_built.stream[1].open = 1 /\ cb_built.stream[1].low = 1
    /\ cb_built.stream[1].close = 2 /\ cb_built.stream[1].high = 3
    /\ cb_built.runner[1].high = 3 /\ cb_built.runner[1].close = 2

====
